---- MODULE Spec2Model ----
(***************************************************************************)
(* Model of the OCR label pipeline: text cleaning, extraction with the     *)
(* generative service and its rule-based fallback, fuzzy matching of the   *)
(* extracted pair against the recipient directory, and the classification  *)
(* of the label outcome into a status.                                     *)
(*                                                                         *)
(* Strings are sequences of ASCII codes.  Similarity scores are floats in  *)
(* the program; here they are exact fractions [n, d] in lowest terms, and  *)
(* the rounded combined confidence is an integer number of hundredths.     *)
(* For strings within the bounds used here the exact arithmetic and the    *)
(* double arithmetic of the program agree on every comparison and on the   *)
(* 2-decimal rounding (no score is an exact rounding tie).                 *)
(***************************************************************************)
EXTENDS Integers, Sequences, FiniteSets, TLC

-----------------------------------------------------------------------------
(* Bounds *)

\* Largest number of rows of a directory.
MaxRows == 2

\* Largest number of pairs the generative service yields for one label.
MaxPairs == 2

\* Largest length of a raw text handed to the text cleaner on its own.
MaxRawLen == 5

\* Largest number of lines of a label handed to the pipeline with the
\* rule-based extractor.
MaxLines == 2

\* Largest sum of the lengths of two strings whose similarity is a score.
MaxLenSum == 6

\* Largest number of workers that process labels against one pipeline.
MaxWorkers == 2

-----------------------------------------------------------------------------
(* Strings *)

\* Python str.isspace for the ASCII range.
IsSpace(c) == c \in {9, 10, 11, 12, 13, 28, 29, 30, 31, 32}

\* str.lower()
Lower(s) == [i \in 1..Len(s) |-> IF s[i] \in 65..90 THEN s[i] + 32 ELSE s[i]]

RECURSIVE LStrip(_)
LStrip(s) == IF s # <<>> /\ IsSpace(Head(s)) THEN LStrip(Tail(s)) ELSE s

RECURSIVE RStrip(_)
RStrip(s) ==
    IF s # <<>> /\ IsSpace(s[Len(s)]) THEN RStrip(SubSeq(s, 1, Len(s) - 1)) ELSE s

\* str.strip()
Strip(s) == RStrip(LStrip(s))

\* str.split(): the maximal runs of non-whitespace, in order.
RECURSIVE SplitWs(_, _, _)
SplitWs(s, cur, acc) ==
    IF s = <<>> THEN (IF cur = <<>> THEN acc ELSE Append(acc, cur))
    ELSE IF IsSpace(Head(s))
         THEN SplitWs(Tail(s), <<>>, IF cur = <<>> THEN acc ELSE Append(acc, cur))
         ELSE SplitWs(Tail(s), Append(cur, Head(s)), acc)

Split(s) == SplitWs(s, <<>>, <<>>)

\* sep.join(parts)
RECURSIVE Join(_, _)
Join(sep, parts) ==
    IF parts = <<>> THEN <<>>
    ELSE IF Len(parts) = 1 THEN parts[1]
    ELSE parts[1] \o sep \o Join(sep, Tail(parts))

\* Lexicographic order of strings by code point (the order sorted() uses).
RECURSIVE StrLess(_, _)
StrLess(a, b) ==
    IF b = <<>> THEN FALSE
    ELSE IF a = <<>> THEN TRUE
    ELSE IF Head(a) # Head(b) THEN Head(a) < Head(b)
    ELSE StrLess(Tail(a), Tail(b))

RECURSIVE InsertToken(_, _)
InsertToken(t, sorted) ==
    IF sorted = <<>> THEN <<t>>
    ELSE IF StrLess(t, Head(sorted)) THEN <<t>> \o sorted
    ELSE <<Head(sorted)>> \o InsertToken(t, Tail(sorted))

RECURSIVE SortTokens(_)
SortTokens(ts) ==
    IF ts = <<>> THEN <<>> ELSE InsertToken(Head(ts), SortTokens(Tail(ts)))

-----------------------------------------------------------------------------
(* Similarity scores (rapidfuzz) *)

Max(x, y) == IF x >= y THEN x ELSE y

RECURSIVE Gcd(_, _)
Gcd(x, y) == IF y = 0 THEN x ELSE Gcd(y, x % y)

\* The fraction n/d in lowest terms.
Frac(n, d) == LET g == Gcd(n, d) IN [n |-> n \div g, d |-> d \div g]

\* One row of the longest-common-subsequence table: cur holds the entries of
\* the new row for the columns 0..Len(cur)-1.  Every entry is computed before
\* the next one is asked for.
RECURSIVE LcsRow(_, _, _, _)
LcsRow(prev, c, b, cur) ==
    LET j == Len(cur) IN
    IF j > Len(b) THEN cur
    ELSE LET next == Append(cur, IF c = b[j] THEN prev[j] + 1
                                 ELSE Max(prev[j + 1], cur[j]))
         IN  IF Len(next) > 0 THEN LcsRow(prev, c, b, next) ELSE next

RECURSIVE LcsTable(_, _, _)
LcsTable(a, b, prev) ==
    IF a = <<>> THEN prev
    ELSE LET row == LcsRow(prev, Head(a), b, <<0>>)
         IN  IF Len(row) > 0 THEN LcsTable(Tail(a), b, row) ELSE row

\* Length of the longest common subsequence of a and b.
Lcs(a, b) == LcsTable(a, b, [j \in 1..(Len(b) + 1) |-> 0])[Len(b) + 1]

\* fuzz.ratio: the normalized Indel similarity times 100,
\* 100 * (1 - (|a| + |b| - 2*lcs) / (|a| + |b|)); two empty strings score 100.
ratio(a, b) ==
    IF Len(a) + Len(b) = 0 THEN Frac(100, 1)
    ELSE Frac(200 * Lcs(a, b), Len(a) + Len(b))

\* fuzz.token_sort_ratio: ratio of the strings rebuilt from their sorted tokens
\* (no other preprocessing, as in rapidfuzz 3).
token_sort_ratio(a, b) ==
    ratio(Join(<<32>>, SortTokens(Split(a))), Join(<<32>>, SortTokens(Split(b))))

\* score >= t, score < t and score order, for fractions and integers.
ScoreGE(s, t) == s.n >= t * s.d
ScoreGT(s1, s2) == s1.n * s2.d > s2.n * s1.d

\* The address score taken as a distance.
CombinedScore_AddressDistance(name_score, address_score) ==
    Frac(6 * name_score.n * address_score.d
         + 4 * (100 * address_score.d - address_score.n) * name_score.d,
         10 * name_score.d * address_score.d)

\* The weights of the two scores exchanged.
CombinedScore_WeightsSwapped(name_score, address_score) ==
    Frac(4 * name_score.n * address_score.d + 6 * address_score.n * name_score.d,
         10 * name_score.d * address_score.d)

\* name_score * 0.6 + address_score * 0.4
CombinedScore(name_score, address_score) ==
    Frac(6 * name_score.n * address_score.d + 4 * address_score.n * name_score.d,
         10 * name_score.d * address_score.d)

\* round(x, 2), as a number of hundredths (ties to even).
Round2(x) ==
    LET h == (100 * x.n) \div x.d
        r == 2 * ((100 * x.n) % x.d)
    IN  IF r > x.d \/ (r = x.d /\ h % 2 = 1) THEN h + 1 ELSE h

-----------------------------------------------------------------------------
(* The recipient directory (a CSV file read into a DataFrame) *)

\* A cell the CSV leaves empty is read as NaN; a column the file does not have
\* reads as None through Series.get.
NaN == <<-1>>
None == <<-2>>

RequiredColumns == {"recipient_id", "first_name", "last_name", "address"}

OptionalColumns ==
    {"preferred_first_name", "preferred_full_name", "unit_number", "city",
     "state", "zip_code"}

\* str(value)
Str(v) == IF v = NaN THEN <<110, 97, 110>> ELSE v

\* bool(value): NaN is a non-zero float, hence true.
Truthy(v) == v # None /\ v # <<>>

\* recipient.get(col, default) on a row of a DataFrame with the given columns.
Get(db, row, col, default) == IF col \in db.columns THEN row[col] ELSE default

\* value == value as pandas compares cells: NaN equals nothing.
CellEq(a, b) == a # NaN /\ b # NaN /\ a = b

-----------------------------------------------------------------------------
(* RecipientMatcher *)

\* RecipientMatcher._load_recipient_db: the DataFrame, or "raise" when the file
\* cannot be read (pd.read_csv raises) or lacks a required column.
\* An operation either raises or returns a value.
Raise == [raised |-> TRUE, value |-> <<>>]
Return(v) == [raised |-> FALSE, value |-> v]

\* The load without the check of the required columns.
_load_recipient_db_NoColumnCheck(file) ==
    IF ~file.readable THEN Raise
    ELSE Return([columns |-> file.columns, rows |-> file.rows])

_load_recipient_db(file) ==
    IF ~file.readable THEN Raise
    ELSE IF RequiredColumns \ file.columns # {} THEN Raise
    ELSE Return([columns |-> file.columns, rows |-> file.rows])

\* variations[key] = value on an insertion-ordered dict kept as a sequence of
\* entries: an existing key keeps its position and takes the new value.
DictSet(d, key, rid) ==
    IF \E i \in 1..Len(d) : d[i].key = key
    THEN [i \in 1..Len(d) |->
            IF d[i].key = key THEN [key |-> key, recipient_id |-> rid] ELSE d[i]]
    ELSE Append(d, [key |-> key, recipient_id |-> rid])

\* The body of the loop of _create_name_variations for one row.
RowVariations(db, row, d) ==
    LET recipient_id == row["recipient_id"]
        first_name == Strip(Str(Get(db, row, "first_name", <<>>)))
        last_name == Strip(Str(Get(db, row, "last_name", <<>>)))
        preferred_first == Strip(Str(Get(db, row, "preferred_first_name", <<>>)))
        preferred_full == Strip(Str(Get(db, row, "preferred_full_name", <<>>)))
        full_name == first_name \o <<32>> \o last_name
        last_first == last_name \o <<44, 32>> \o first_name
        pref_full == preferred_first \o <<32>> \o last_name
        d1 == IF first_name # <<>> /\ last_name # <<>>
              THEN DictSet(DictSet(d, Lower(full_name), recipient_id),
                           Lower(last_first), recipient_id)
              ELSE d
        d2 == IF preferred_first # <<>> /\ last_name # <<>>
              THEN DictSet(d1, Lower(pref_full), recipient_id)
              ELSE d1
    IN  IF preferred_full # <<>>
        THEN DictSet(d2, Lower(preferred_full), recipient_id)
        ELSE d2

RECURSIVE VariationsFrom(_, _, _)
VariationsFrom(db, i, d) ==
    IF i > Len(db.rows) THEN d
    ELSE VariationsFrom(db, i + 1, RowVariations(db, db.rows[i], d))

\* RecipientMatcher._create_name_variations
_create_name_variations(db) == VariationsFrom(db, 1, <<>>)

\* list.sort(key=lambda x: x['score'], reverse=True): descending and stable.
RECURSIVE InsertByScore(_, _)
InsertByScore(x, sorted) ==
    IF sorted = <<>> THEN <<x>>
    ELSE IF ScoreGT(x.score, Head(sorted).score) THEN <<x>> \o sorted
    ELSE <<Head(sorted)>> \o InsertByScore(x, Tail(sorted))

RECURSIVE SortByScore(_)
SortByScore(xs) ==
    IF xs = <<>> THEN <<>>
    ELSE InsertByScore(xs[Len(xs)], SortByScore(SubSeq(xs, 1, Len(xs) - 1)))

RECURSIVE NameMatchesFrom(_, _, _, _)
NameMatchesFrom(input_name_lower, name_variations, threshold, i) ==
    IF i > Len(name_variations) THEN <<>>
    ELSE LET score == ratio(input_name_lower, name_variations[i].key)
             rest == NameMatchesFrom(input_name_lower, name_variations, threshold, i + 1)
         IN  IF ScoreGE(score, threshold)
             THEN <<[recipient_id |-> name_variations[i].recipient_id,
                     score |-> score]>> \o rest
             ELSE rest

\* RecipientMatcher._fuzzy_match_name
_fuzzy_match_name(input_name, name_variations, threshold) ==
    IF input_name = <<>> \/ name_variations = <<>> THEN <<>>
    ELSE SortByScore(NameMatchesFrom(Strip(Lower(input_name)), name_variations,
                                     threshold, 1))

\* The parts of the recipient's address that _fuzzy_match_address joins.
RECURSIVE AddressParts(_, _, _)
AddressParts(db, recipient, cols) ==
    IF cols = <<>> THEN <<>>
    ELSE LET v == Get(db, recipient, Head(cols), None)
         IN  (IF Truthy(v) THEN <<Str(v)>> ELSE <<>>)
             \o AddressParts(db, recipient, Tail(cols))

\* RecipientMatcher._fuzzy_match_address
_fuzzy_match_address(db, input_address, recipient) ==
    IF input_address = <<>> THEN Frac(0, 1)
    ELSE LET address_parts ==
                 AddressParts(db, recipient,
                              <<"address", "unit_number", "city", "state", "zip_code">>)
             full_address == Strip(Lower(Join(<<44, 32>>, address_parts)))
             input_address_lower == Strip(Lower(input_address))
         IN  token_sort_ratio(input_address_lower, full_address)

\* recipient_db[recipient_db['recipient_id'] == recipient_id]: the indexes of
\* the rows selected.
RowsWithId(db, recipient_id) ==
    {i \in 1..Len(db.rows) : CellEq(db.rows[i]["recipient_id"], recipient_id)}

Min(S) == CHOOSE x \in S : \A y \in S : x <= y

\* The matches left in the order of the name matches.
SortByConfidence_Unsorted(xs) == xs

\* matches.sort(key=lambda x: x['combined_confidence'], reverse=True)
RECURSIVE InsertByConfidence(_, _)
InsertByConfidence(x, sorted) ==
    IF sorted = <<>> THEN <<x>>
    ELSE IF x.combined_confidence > Head(sorted).combined_confidence
         THEN <<x>> \o sorted
    ELSE <<Head(sorted)>> \o InsertByConfidence(x, Tail(sorted))

RECURSIVE SortByConfidence(_)
SortByConfidence(xs) ==
    IF xs = <<>> THEN <<>>
    ELSE InsertByConfidence(xs[Len(xs)],
                            SortByConfidence(SubSeq(xs, 1, Len(xs) - 1)))

\* The flag every match of one match_pair call carries.
IsAmbiguous(name_matches) == Len(name_matches) > 1

\* The loop body with the bar on the combined score ten points below the
\* threshold.
MatchOf_BarTenBelow(db, threshold, input_address, name_matches, i) ==
    LET recipient_id == name_matches[i].recipient_id
        recipient == db.rows[Min(RowsWithId(db, recipient_id))]
        address_score == _fuzzy_match_address(db, input_address, recipient)
        name_score == name_matches[i].score
        combined_score == CombinedScore(name_score, address_score)
    IN  IF ScoreGE(combined_score, threshold - 10)
        THEN <<[recipient_id |-> recipient_id,
                first_name |-> Get(db, recipient, "first_name", <<>>),
                last_name |-> Get(db, recipient, "last_name", <<>>),
                name_match_score |-> name_score,
                address_match_score |-> address_score,
                combined_confidence |-> Round2(combined_score),
                is_ambiguous |-> IsAmbiguous(name_matches)]>>
        ELSE <<>>

\* The loop body without the bar on the combined score.
MatchOf_NoCombinedBar(db, threshold, input_address, name_matches, i) ==
    LET recipient_id == name_matches[i].recipient_id
        recipient == db.rows[Min(RowsWithId(db, recipient_id))]
        address_score == _fuzzy_match_address(db, input_address, recipient)
        name_score == name_matches[i].score
        combined_score == CombinedScore(name_score, address_score)
    IN  <<[recipient_id |-> recipient_id,
           first_name |-> Get(db, recipient, "first_name", <<>>),
           last_name |-> Get(db, recipient, "last_name", <<>>),
           name_match_score |-> name_score,
           address_match_score |-> address_score,
           combined_confidence |-> Round2(combined_score),
           is_ambiguous |-> IsAmbiguous(name_matches)]>>

\* The body of the loop of match_pair for one name match whose recipient row
\* exists: the match appended, if any.
MatchOf(db, threshold, input_address, name_matches, i) ==
    LET recipient_id == name_matches[i].recipient_id
        recipient == db.rows[Min(RowsWithId(db, recipient_id))]
        address_score == _fuzzy_match_address(db, input_address, recipient)
        name_score == name_matches[i].score
        combined_score == CombinedScore(name_score, address_score)
    IN  IF ScoreGE(combined_score, threshold)
        THEN <<[recipient_id |-> recipient_id,
                first_name |-> Get(db, recipient, "first_name", <<>>),
                last_name |-> Get(db, recipient, "last_name", <<>>),
                name_match_score |-> name_score,
                address_match_score |-> address_score,
                combined_confidence |-> Round2(combined_score),
                is_ambiguous |-> IsAmbiguous(name_matches)]>>
        ELSE <<>>

RECURSIVE MatchesFrom(_, _, _, _, _)
MatchesFrom(db, threshold, input_address, name_matches, i) ==
    IF i > Len(name_matches) THEN <<>>
    ELSE MatchOf(db, threshold, input_address, name_matches, i)
         \o MatchesFrom(db, threshold, input_address, name_matches, i + 1)

\* RecipientMatcher.match_pair.  Selecting the recipient's row with .iloc[0]
\* raises IndexError when no row has the recipient_id of the name match.
match_pair(db, threshold, input_name, input_address) ==
    LET name_variations == _create_name_variations(db)
        name_matches == _fuzzy_match_name(input_name, name_variations, threshold)
    IN  IF \E i \in 1..Len(name_matches) :
              RowsWithId(db, name_matches[i].recipient_id) = {}
        THEN Raise
        ELSE Return(SortByConfidence(
                 MatchesFrom(db, threshold, input_address, name_matches, 1)))

\* A match_pair that keeps in self.recipient_db only the rows of the
\* recipients whose names matched.
MatcherAfterMatchPair_FilterInPlace(m, input_name, input_address) ==
    LET db == m.recipient_db
        name_matches == _fuzzy_match_name(input_name, _create_name_variations(db),
                                          m.threshold)
        kept == UNION {RowsWithId(db, name_matches[i].recipient_id) :
                          i \in 1..Len(name_matches)}
    IN  [m EXCEPT !.recipient_db.rows =
            SelectSeq(@, LAMBDA row : \E k \in kept : db.rows[k] = row)]

\* The matcher after a call of match_pair: the method reads self.threshold
\* and self.recipient_db, selects rows into new objects and assigns to no
\* attribute of the matcher.
MatcherAfterMatchPair(m, input_name, input_address) == m

-----------------------------------------------------------------------------
(* Text cleaner *)

\* The removal that lets every character through.
RemoveNonPrintable_KeepsControl(s) == s

\* re.sub(r'[^\x20-\x7E\n\t]', '', text)
RemoveNonPrintable(s) == SelectSeq(s, LAMBDA c : c \in 32..126 \/ c = 10 \/ c = 9)

\* re.sub(r'c+', 'c', text) for one character c.
RECURSIVE CollapseRuns(_, _)
CollapseRuns(s, c) ==
    IF Len(s) < 2 THEN s
    ELSE IF s[1] = c /\ s[2] = c THEN CollapseRuns(Tail(s), c)
    ELSE <<s[1]>> \o CollapseRuns(Tail(s), c)

\* text.split('\n'): the pieces between newlines, empty ones included.
RECURSIVE SplitLines(_, _)
SplitLines(s, cur) ==
    IF s = <<>> THEN <<cur>>
    ELSE IF Head(s) = 10 THEN <<cur>> \o SplitLines(Tail(s), <<>>)
    ELSE SplitLines(Tail(s), Append(cur, Head(s)))

StripLines(lines) == [i \in 1..Len(lines) |-> Strip(lines[i])]

\* The end of the maximal run of whitespace that starts at position i.
RECURSIVE RunEnd(_, _)
RunEnd(s, i) == IF i <= Len(s) /\ IsSpace(s[i]) THEN RunEnd(s, i + 1) ELSE i - 1

\* re.sub(r'\n\s*\n', '\n', text): leftmost matches, \s* greedy, so a match
\* that starts at a newline ends at the last newline of the whitespace run
\* that follows it.
RECURSIVE RemoveEmptyLines(_, _)
RemoveEmptyLines(s, i) ==
    IF i > Len(s) THEN <<>>
    ELSE LET ends == {k \in (i + 1)..RunEnd(s, i + 1) : s[k] = 10}
         IN  IF s[i] = 10 /\ ends # {}
             THEN <<10>> \o RemoveEmptyLines(s, (CHOOSE k \in ends : \A m \in ends : m <= k) + 1)
             ELSE <<s[i]>> \o RemoveEmptyLines(s, i + 1)

\* The cleaning without the removal of the empty lines.
clean_ocr_text_KeepsEmptyLines(ocr_text) ==
    IF ocr_text = None \/ ocr_text = <<>> THEN <<>>
    ELSE LET t1 == RemoveNonPrintable(ocr_text)
             t2 == CollapseRuns(t1, 32)
             t3 == CollapseRuns(t2, 10)
             t4 == Join(<<10>>, StripLines(SplitLines(t3, <<>>)))
         IN  Strip(t4)

\* clean_ocr_text
clean_ocr_text(ocr_text) ==
    IF ocr_text = None \/ ocr_text = <<>> THEN <<>>
    ELSE LET t1 == RemoveNonPrintable(ocr_text)
             t2 == CollapseRuns(t1, 32)
             t3 == CollapseRuns(t2, 10)
             t4 == Join(<<10>>, StripLines(SplitLines(t3, <<>>)))
             t5 == RemoveEmptyLines(t4, 1)
         IN  Strip(t5)

-----------------------------------------------------------------------------
(* String literals *)

\* The printable ASCII characters of codes 32..95 and 97..126, in the order of
\* their codes.
AsciiTo95 ==
    " !\"#$%&'()*+,-./0123456789:;<=>?@ABCDEFGHIJKLMNOPQRSTUVWXYZ[\\]^_"
AsciiFrom97 == "abcdefghijklmnopqrstuvwxyz{|}~"

\* ord(ch) for a newline or one of these characters.
Ord(ch) ==
    IF ch = "\n" THEN 10
    ELSE IF \E i \in 1..64 : SubSeq(AsciiTo95, i, i) = ch
    THEN 31 + (CHOOSE i \in 1..64 : SubSeq(AsciiTo95, i, i) = ch)
    ELSE 96 + (CHOOSE i \in 1..30 : SubSeq(AsciiFrom97, i, i) = ch)

\* The sequence of the codes of the characters of a string literal.
Codes(str) == [i \in 1..Len(str) |-> Ord(SubSeq(str, i, i))]

\* A local variable: the value is computed when it is assigned, and the body
\* is what follows with the variable holding it.
With(value, Body(_)) == Body(value)

\* value if value is not None else default
OrElse(value, default) == IF value # None THEN value ELSE default

-----------------------------------------------------------------------------
(* Regular expressions (module re) *)

\* A pattern is a sequence of nodes, matched one after the other:
\*   set    one character of the set cs
\*   rep    the pattern subs[1] repeated lo to hi times, as often as possible
\*   alt    the first of the patterns subs that lets the rest match
\*   open, close   the start and the end of the capturing group n
\*   nla    (?!...): the pattern subs[1] does not match here
\*   wb     \b
\*   bol    ^
Node(t, cs, lo, hi, subs, n) ==
    <<[t |-> t, cs |-> cs, lo |-> lo, hi |-> hi, subs |-> subs, n |-> n]>>

\* The upper limit of * and +.
Unlimited == 1000000

Set(cs) == Node("set", cs, 0, 0, <<>>, 0)
Lit(str) == [i \in 1..Len(str) |-> Set({str[i]})[1]]
Rep(sub, lo, hi) == Node("rep", {}, lo, hi, <<sub>>, 0)
Plus(sub) == Rep(sub, 1, Unlimited)
Star(sub) == Rep(sub, 0, Unlimited)
Opt(sub) == Rep(sub, 0, 1)
Alt(subs) == Node("alt", {}, 0, 0, subs, 0)
Grp(n, sub) == Node("open", {}, 0, 0, <<>>, n) \o sub \o Node("close", {}, 0, 0, <<>>, n)
NotAhead(sub) == Node("nla", {}, 0, 0, <<sub>>, 0)
WordB == Node("wb", {}, 0, 0, <<>>, 0)
Bol == Node("bol", {}, 0, 0, <<>>, 0)

\* Character classes.
Digits == 48..57
Uppers == 65..90
Lowers == 97..122
Letters == Uppers \cup Lowers
Spaces == {9, 10, 11, 12, 13, 28, 29, 30, 31, 32}
WordChars == Letters \cup Digits \cup {95}
NotIn(cs) == (0..127) \ cs

SwapCase(c) ==
    IF c \in Uppers THEN c + 32 ELSE IF c \in Lowers THEN c - 32 ELSE c

\* Whether character c is in the set cs, under re.IGNORECASE when ic.
InSet(c, cs, ic) == c \in cs \/ (ic /\ SwapCase(c) \in cs)

\* The number of characters from offset pos on that are in cs, hi at most.
RunLen(s, pos, cs, ic, hi) ==
    LET limit == Max(0, IF Len(s) - pos < hi THEN Len(s) - pos ELSE hi)
    IN  Min({n \in 0..limit : n = limit \/ ~InSet(s[pos + n + 1], cs, ic)})

\* Whether the character at offset pos exists and is a word character.
IsWordAt(s, pos) == pos >= 0 /\ pos < Len(s) /\ s[pos + 1] \in WordChars

\* The groups of a match: the start and end offsets of each, -1 when the
\* group took no part.
NoCaps == [n \in 1..4 |-> <<-1, -1>>]

NoMatch == [ok |-> FALSE, start |-> -1, end |-> -1, caps |-> NoCaps]

\* What is matched next: the kind of the first node of the pattern k, "run"
\* for a repeated character set and "end" for the end of the pattern.
Kind(k) ==
    IF k = <<>> THEN "end"
    ELSE IF Head(k).t = "rep" /\ Len(Head(k).subs[1]) = 1
            /\ Head(k).subs[1][1].t = "set" THEN "run"
    ELSE Head(k).t

\* The tries of a choice are ranked in the order the re module makes them.
\* The outcome of the first try that is a match, no match when none is one.
Rank(try) == IF try.m.ok THEN try.rank ELSE Unlimited
First(tries) ==
    (CHOOSE try \in tries \cup {[rank |-> Unlimited, m |-> NoMatch]} :
        \A other \in tries : Rank(try) <= Rank(other)).m

\* The backtracking match of the pattern k at offset pos of s: the first way
\* to match all of k in the order the re module tries them.
RECURSIVE Match(_, _, _, _, _)
RECURSIVE TryEnds(_, _, _, _, _, _)
RECURSIVE TryAlts(_, _, _, _, _, _)
Match(k, s, pos, caps, ic) ==
    CASE Kind(k) = "end" -> [ok |-> TRUE, start |-> -1, end |-> pos, caps |-> caps]
      [] Kind(k) = "set" ->
            IF pos < Len(s) /\ InSet(s[pos + 1], Head(k).cs, ic)
            THEN Match(Tail(k), s, pos + 1, caps, ic)
            ELSE NoMatch
      [] Kind(k) = "run" ->
            TryEnds(Tail(k), s,
                    pos + RunLen(s, pos, Head(k).subs[1][1].cs, ic, Head(k).hi),
                    pos + Head(k).lo, caps, ic)
      [] Kind(k) = "rep" ->
            LET h == Head(k)
                more == IF h.hi > 0
                        THEN Match(h.subs[1]
                                   \o Rep(h.subs[1], Max(h.lo - 1, 0), h.hi - 1)
                                   \o Tail(k), s, pos, caps, ic)
                        ELSE NoMatch
            IN  IF more.ok THEN more
                ELSE IF h.lo <= 0 THEN Match(Tail(k), s, pos, caps, ic)
                ELSE NoMatch
      [] Kind(k) = "alt" -> TryAlts(Head(k).subs, Tail(k), s, pos, caps, ic)
      [] Kind(k) = "open" ->
            Match(Tail(k), s, pos, [caps EXCEPT ![Head(k).n] = <<pos, -1>>], ic)
      [] Kind(k) = "close" ->
            Match(Tail(k), s, pos,
                  [caps EXCEPT ![Head(k).n] = <<caps[Head(k).n][1], pos>>], ic)
      [] Kind(k) = "nla" ->
            IF Match(Head(k).subs[1], s, pos, caps, ic).ok THEN NoMatch
            ELSE Match(Tail(k), s, pos, caps, ic)
      [] Kind(k) = "wb" ->
            IF IsWordAt(s, pos - 1) # IsWordAt(s, pos)
            THEN Match(Tail(k), s, pos, caps, ic)
            ELSE NoMatch
      [] Kind(k) = "bol" ->
            IF pos = 0 THEN Match(Tail(k), s, pos, caps, ic) ELSE NoMatch

\* A repeated character set gives back its characters one by one, from the
\* longest run at offset end down to the shortest at offset least: the first
\* end in that order from which the rest matches.
TryEnds(rest, s, end, least, caps, ic) ==
    First({[rank |-> end - e, m |-> Match(rest, s, e, caps, ic)] : e \in least..end})

\* The first alternative, in the order written, that lets the rest match.
TryAlts(alts, rest, s, pos, caps, ic) ==
    First({[rank |-> i, m |-> Match(alts[i] \o rest, s, pos, caps, ic)] :
              i \in 1..Len(alts)})

\* The match m as one that was found from offset pos on.
StartAt(m, pos) == IF m.ok THEN [m EXCEPT !.start = pos] ELSE NoMatch

\* re.search on s from offset pos on: the leftmost match.
SearchFrom(pattern, s, pos, ic) ==
    First({[rank |-> p, m |-> StartAt(Match(pattern, s, p, NoCaps, ic), p)] :
              p \in pos..Len(s)})

\* re.search(pattern, s) and re.search(pattern, s, re.IGNORECASE)
Search(pattern, s) == SearchFrom(pattern, s, 0, FALSE)
SearchI(pattern, s) == SearchFrom(pattern, s, 0, TRUE)

\* list(re.finditer(pattern, s)): the successive matches, none overlapping.
RECURSIVE FindIterFrom(_, _, _)
FindIterFrom(pattern, s, pos) ==
    LET m == SearchFrom(pattern, s, pos, FALSE)
    IN  IF ~m.ok THEN <<>>
        ELSE <<m>> \o FindIterFrom(pattern, s, IF m.end > m.start THEN m.end
                                                ELSE m.end + 1)

FindIter(pattern, s) == FindIterFrom(pattern, s, 0)

\* s[a:b] for offsets 0 <= a.
Slice(s, a, b) == SubSeq(s, a + 1, IF b < Len(s) THEN b ELSE Len(s))

\* match.group(n)
Group(m, s, n) == Slice(s, m.caps[n][1], m.caps[n][2])

-----------------------------------------------------------------------------
(* Rule-based extractor: strings and patterns *)

\* str.upper()
Upper(s) == [i \in 1..Len(s) |-> IF s[i] \in Lowers THEN s[i] - 32 ELSE s[i]]

\* str.capitalize()
Capitalize(s) == IF s = <<>> THEN s ELSE Upper(<<Head(s)>>) \o Lower(Tail(s))

\* str.islower(): some cased character and no uppercase one.
IsLower(s) ==
    /\ \E i \in 1..Len(s) : s[i] \in Lowers
    /\ \A i \in 1..Len(s) : s[i] \notin Uppers

\* s.find(sub): the offset of the first occurrence, or -1.
Find(s, sub) ==
    LET hits == {p \in 0..(Len(s) - Len(sub)) :
                    SubSeq(s, p + 1, p + Len(sub)) = sub}
    IN  IF hits = {} THEN -1 ELSE Min(hits)

\* sub in s
Contains(s, sub) == Find(s, sub) >= 0

\* s.replace(old, new)
RECURSIVE Replace(_, _, _)
Replace(s, old, new) ==
    IF Len(s) < Len(old) THEN s
    ELSE IF SubSeq(s, 1, Len(old)) = old
         THEN new \o Replace(SubSeq(s, Len(old) + 1, Len(s)), old, new)
    ELSE <<Head(s)>> \o Replace(Tail(s), old, new)

\* ' '.join(w.capitalize() for w in words)
CapitalizeWords(words) ==
    Join(<<32>>, [i \in 1..Len(words) |-> Capitalize(words[i])])

\* any(w.lower() in excluded for w in words)
AnyIn(words, excluded) == \E i \in 1..Len(words) : Lower(words[i]) \in excluded

MaxOf(xs) == CHOOSE x \in xs : \A y \in xs : y <= x

\* The first and the last entry of a sequence that is not None, or None.
FirstSome(xs) ==
    LET some == {i \in 1..Len(xs) : xs[i] # None}
    IN  IF some = {} THEN None ELSE xs[Min(some)]

LastSome(xs) ==
    LET some == {i \in 1..Len(xs) : xs[i] # None}
    IN  IF some = {} THEN None ELSE xs[MaxOf(some)]

\* The address written with the zip code before the state.
FormatAddress_ZipBeforeState(street, city, state, zip_code) ==
    street \o <<44, 32>> \o city \o <<44, 32>> \o zip_code \o <<32>> \o state
\* f"{street}, {city}, {state} {zip_code}"
FormatAddress(street, city, state, zip_code) ==
    street \o <<44, 32>> \o city \o <<44, 32>> \o state \o <<32>> \o zip_code

\* \d  \s  [A-Z]  [a-z]  [A-Za-z]  [A-Za-z\s]
Digit == Set(Digits)
Sp == Set(Spaces)
Up == Set(Uppers)
Lo == Set(Lowers)
Alpha == Set(Letters)
AlphaSp == Set(Letters \cup Spaces)

\* One pattern for each of the words, in their order.
Words(ws) == [i \in 1..Len(ws) |-> Lit(ws[i])]

\* \d{5}(?:-\d{4})?
Zip == Rep(Digit, 5, 5) \o Opt(Lit(<<45>>) \o Rep(Digit, 4, 4))

\* [A-Z][a-z]+
CapWord == Up \o Plus(Lo)

ship_to_pattern ==
    Alt(<<Lit(Codes("ship")) \o Plus(Sp) \o Lit(Codes("to")),
          Lit(Codes("recipient")),
          Lit(Codes("rec")) \o Plus(Sp) \o Lit(Codes("ipient"))>>)
    \o Plus(Set({58, 44} \cup Spaces))
    \o NotAhead(Star(Sp)
                \o Alt(Words(<<Codes("ups"), Codes("fedex"), Codes("usps"),
                               Codes("priority"), Codes("mail"), Codes("ground"),
                               Codes("express")>>)))
    \o Grp(1, CapWord \o Plus(Plus(Sp) \o CapWord))

street_types ==
    Alt(Words(<<Codes("street"), Codes("st"), Codes("avenue"), Codes("ave"),
                Codes("road"), Codes("rd"), Codes("drive"), Codes("dr"),
                Codes("lane"), Codes("ln"), Codes("boulevard"), Codes("blvd"),
                Codes("way"), Codes("court"), Codes("ct"), Codes("circle"),
                Codes("cir"), Codes("parkway"), Codes("pkwy"), Codes("highway"),
                Codes("hwy"), Codes("place"), Codes("pl"), Codes("freeway"),
                Codes("fwy")>>))

\* (\d+\s+[A-Za-z0-9\s\-]+{street_types})
street_pattern ==
    Grp(1, Plus(Digit) \o Plus(Sp)
           \o Plus(Set(Letters \cup Digits \cup Spaces \cup {45}))
           \o street_types)

\* ([A-Za-z\s]+),\s*([A-Z]{2})\s+(\d{5}(?:-\d{4})?), its groups numbered from
\* g + 1 on.
city_state_zip(g) ==
    Grp(g + 1, Plus(AlphaSp)) \o Lit(<<44>>) \o Star(Sp)
    \o Grp(g + 2, Rep(Up, 2, 2)) \o Plus(Sp) \o Grp(g + 3, Zip)

\* {street_pattern}[,\s]+{city_state_zip}
full_address_pattern ==
    street_pattern \o Plus(Set({44} \cup Spaces)) \o city_state_zip(1)

\* \d+\s+[A-Za-z\s]+(?:types)[^,]*,\s*  the start of the simple patterns.
SimpleStreet(types) ==
    Plus(Digit) \o Plus(Sp) \o Plus(AlphaSp) \o Alt(Words(types))
    \o Star(Set(NotIn({44}))) \o Lit(<<44>>) \o Star(Sp)

\* ,\s*[A-Z]{2}
CommaState == Lit(<<44>>) \o Star(Sp) \o Rep(Up, 2, 2)

simple_patterns ==
    <<Grp(1, SimpleStreet(<<Codes("dr"), Codes("st"), Codes("ave"), Codes("rd"),
                            Codes("ln"), Codes("blvd"), Codes("way"), Codes("ct"),
                            Codes("cir"), Codes("hwy"), Codes("fwy"),
                            Codes("parkway"), Codes("pkwy")>>)
             \o Plus(AlphaSp) \o CommaState \o Plus(Sp) \o Zip),
      Grp(1, SimpleStreet(<<Codes("street"), Codes("st"), Codes("avenue"),
                            Codes("ave"), Codes("road"), Codes("rd"),
                            Codes("drive"), Codes("dr")>>)
             \o Plus(AlphaSp) \o CommaState \o Plus(Sp) \o Rep(Digit, 5, 5)),
      Grp(1, SimpleStreet(<<Codes("dr"), Codes("st"), Codes("ave"), Codes("rd"),
                            Codes("ln"), Codes("blvd"), Codes("way"), Codes("ct"),
                            Codes("cir"), Codes("hwy")>>)
             \o Zip \o Plus(Sp) \o Plus(AlphaSp) \o CommaState)>>

\* (\d{5}(?:-\d{4})?)\s+([A-Za-z\s]+),\s*([A-Z]{2})
zip_city_pattern ==
    Grp(1, Zip) \o Plus(Sp) \o Grp(2, Plus(AlphaSp)) \o Lit(<<44>>) \o Star(Sp)
    \o Grp(3, Rep(Up, 2, 2))

\* \b([A-Z][a-z]+\s+[A-Z][a-z]+)\b
CapitalizedName == WordB \o Grp(1, CapWord \o Plus(Sp) \o CapWord) \o WordB

\* \b([a-z]+\s+[a-z]+)\b
LowercaseName == WordB \o Grp(1, Plus(Lo) \o Plus(Sp) \o Plus(Lo)) \o WordB

name_patterns ==
    <<WordB \o Grp(1, CapWord \o Plus(Sp) \o CapWord \o Opt(Plus(Sp) \o CapWord))
      \o WordB,
      LowercaseName>>

\* non_name_words (lines 25-37).
non_name_words ==
    {Codes("ship"), Codes("priority"), Codes("mail"), Codes("ground"),
     Codes("ups"), Codes("fedex"), Codes("usps"), Codes("tracking"),
     Codes("postage"), Codes("fees"), Codes("paid"), Codes("sender"),
     Codes("shipper"), Codes("bill"), Codes("notifii"), Codes("llc"),
     Codes("corporation"), Codes("company"), Codes("apartments"),
     Codes("apartment"), Codes("north"), Codes("gate"), Codes("south"),
     Codes("east"), Codes("west"), Codes("suite"), Codes("ste"),
     Codes("street"), Codes("avenue"), Codes("road"), Codes("drive"),
     Codes("lane"), Codes("boulevard"), Codes("blvd"), Codes("way"),
     Codes("court"), Codes("circle"), Codes("parkway"), Codes("highway"),
     Codes("place"), Codes("station"), Codes("location"), Codes("hold"),
     Codes("following"), Codes("special"), Codes("instructiu"),
     Codes("paper"), Codes("lbs"), Codes("cycle"), Codes("ref"),
     Codes("billing"), Codes("pip"), Codes("cwtainity"), Codes("manautr"),
     Codes("etxk"), Codes("frun"), Codes("nippina"), Codes("pobtage"),
     Codes("postaqe"), Codes("paooed"), Codes("envelope"), Codes("signature"),
     Codes("tracning"), Codes("design"), Codes("group"), Codes("echo"),
     Codes("mason"), Codes("college"), Codes("sierra"), Codes("srra"),
     Codes("s8rr"), Codes("collede"), Codes("buid"), Codes("sute"),
     Codes("bud"), Codes("colle"), Codes("ge")}

\* the shipping terms a "ship to" name is checked against (lines 118-118).
ShippingMethods ==
    {Codes("ups"), Codes("fedex"), Codes("usps"), Codes("ground"),
     Codes("priority"), Codes("mail"), Codes("express")}

\* the place words of the names before the address (lines 145-155).
PlaceWordsBefore ==
    {Codes("roseville"), Codes("williston"), Codes("tampa"),
     Codes("norcross"), Codes("chicago"), Codes("webster"), Codes("fort"),
     Codes("collins"), Codes("folsom"), Codes("beach"), Codes("bethesda"),
     Codes("pompano"), Codes("pamgiano"), Codes("pumgiana"),
     Codes("mishawaka"), Codes("harvey"), Codes("emerald"), Codes("pointe"),
     Codes("apartment"), Codes("homes"), Codes("north"), Codes("gate"),
     Codes("eaton"), Codes("corporation"), Codes("victory"), Codes("world"),
     Codes("church"), Codes("allen"), Codes("overy"), Codes("sterling"),
     Codes("management"), Codes("premier"), Codes("property"), Codes("echo"),
     Codes("design"), Codes("group"), Codes("mason"), Codes("street"),
     Codes("sierra"), Codes("college"), Codes("srra"), Codes("s8rr"),
     Codes("collede"), Codes("buid"), Codes("sute"), Codes("bud"),
     Codes("cleveland"), Codes("euless"), Codes("new"), Codes("york"),
     Codes("san"), Codes("francisco"), Codes("lex"), Codes("lbs"),
     Codes("fat1"), Codes("united"), Codes("states"), Codes("dsm1"),
     Codes("tba"), Codes("cycle"), Codes("sm1")}

\* the shipping terms of the name at the start of the text (lines 175-175).
ShippingTermsAtStart ==
    {Codes("lex"), Codes("lbs"), Codes("ship"), Codes("priority"),
     Codes("mail"), Codes("ground"), Codes("ups"), Codes("batavia"),
     Codes("stkllt")}

\* the shipping terms skipped after "ship to" (lines 195-196).
ShippingTermsAfterShipTo ==
    {Codes("ups"), Codes("fedex"), Codes("usps"), Codes("ground"),
     Codes("priority"), Codes("mail"), Codes("express"), Codes("tracking"),
     Codes("lbs"), Codes("ship")}

\* the words excluded from a name after "ship to" (lines 201-203).
ExcludedAfterShipTo ==
    {Codes("ship"), Codes("priority"), Codes("mail"), Codes("ground"),
     Codes("ups"), Codes("fedex"), Codes("usps"), Codes("tracking"),
     Codes("lbs"), Codes("manautr"), Codes("ree"), Codes("etxk"),
     Codes("nippina"), Codes("billing"), Codes("pip"), Codes("cwtainity")}

\* the place words of the names anywhere in the text (lines 220-229).
PlaceWordsAnywhere ==
    {Codes("roseville"), Codes("williston"), Codes("tampa"),
     Codes("norcross"), Codes("chicago"), Codes("webster"), Codes("fort"),
     Codes("collins"), Codes("folsom"), Codes("beach"), Codes("bethesda"),
     Codes("pompano"), Codes("pamgiano"), Codes("pumgiana"),
     Codes("mishawaka"), Codes("harvey"), Codes("emerald"), Codes("pointe"),
     Codes("apartment"), Codes("homes"), Codes("north"), Codes("gate"),
     Codes("eaton"), Codes("corporation"), Codes("victory"), Codes("world"),
     Codes("church"), Codes("allen"), Codes("overy"), Codes("sterling"),
     Codes("management"), Codes("premier"), Codes("property"), Codes("echo"),
     Codes("design"), Codes("group"), Codes("mason"), Codes("street"),
     Codes("lex"), Codes("lbs"), Codes("fat1"), Codes("united"),
     Codes("states"), Codes("dsm1"), Codes("tba"), Codes("cycle"),
     Codes("sm1"), Codes("batavia"), Codes("stkllt"), Codes("special"),
     Codes("instructiu"), Codes("metr"), Codes("paper"), Codes("fedex"),
     Codes("mps"), Codes("frun"), Codes("notifil"), Codes("ground"),
     Codes("bill"), Codes("sender")}

\* the place words of the names near and before the address (lines 253-262).
PlaceWordsNearBefore ==
    {Codes("roseville"), Codes("williston"), Codes("tampa"),
     Codes("norcross"), Codes("chicago"), Codes("webster"), Codes("fort"),
     Codes("collins"), Codes("folsom"), Codes("beach"), Codes("bethesda"),
     Codes("pompano"), Codes("pamgiano"), Codes("pumgiana"),
     Codes("mishawaka"), Codes("harvey"), Codes("emerald"), Codes("pointe"),
     Codes("apartment"), Codes("homes"), Codes("north"), Codes("gate"),
     Codes("eaton"), Codes("corporation"), Codes("victory"), Codes("world"),
     Codes("church"), Codes("allen"), Codes("overy"), Codes("sterling"),
     Codes("management"), Codes("premier"), Codes("property"), Codes("echo"),
     Codes("design"), Codes("group"), Codes("mason"), Codes("street"),
     Codes("sierra"), Codes("college"), Codes("srra"), Codes("s8rr"),
     Codes("collede"), Codes("buid"), Codes("sute"), Codes("bud"),
     Codes("ship"), Codes("priority"), Codes("mail"), Codes("ground"),
     Codes("ups"), Codes("fedex"), Codes("usps"), Codes("tracking"),
     Codes("postage"), Codes("fees"), Codes("paid")}

\* the place words of the names after the address (lines 277-284).
PlaceWordsNearAfter ==
    {Codes("roseville"), Codes("williston"), Codes("tampa"),
     Codes("norcross"), Codes("chicago"), Codes("webster"), Codes("fort"),
     Codes("collins"), Codes("folsom"), Codes("beach"), Codes("bethesda"),
     Codes("pompano"), Codes("pamgiano"), Codes("pumgiana"),
     Codes("mishawaka"), Codes("harvey"), Codes("emerald"), Codes("pointe"),
     Codes("apartment"), Codes("homes"), Codes("north"), Codes("gate"),
     Codes("eaton"), Codes("corporation"), Codes("victory"), Codes("world"),
     Codes("church"), Codes("allen"), Codes("overy"), Codes("sterling"),
     Codes("management"), Codes("premier"), Codes("property"), Codes("echo"),
     Codes("design"), Codes("group"), Codes("mason"), Codes("street"),
     Codes("sierra"), Codes("college"), Codes("ship"), Codes("priority"),
     Codes("mail"), Codes("ground"), Codes("ups"), Codes("fedex"),
     Codes("usps")}

\* the place words of the final search, capitalized names (lines 382-399).
PlaceWordsFinal ==
    {Codes("roseville"), Codes("williston"), Codes("tampa"),
     Codes("norcross"), Codes("chicago"), Codes("webster"), Codes("fort"),
     Codes("collins"), Codes("folsom"), Codes("beach"), Codes("bethesda"),
     Codes("pompano"), Codes("pamgiano"), Codes("pumgiana"),
     Codes("mishawaka"), Codes("harvey"), Codes("emerald"), Codes("pointe"),
     Codes("apartment"), Codes("homes"), Codes("north"), Codes("gate"),
     Codes("eaton"), Codes("corporation"), Codes("victory"), Codes("world"),
     Codes("church"), Codes("allen"), Codes("overy"), Codes("sterling"),
     Codes("management"), Codes("premier"), Codes("property"), Codes("echo"),
     Codes("design"), Codes("group"), Codes("mason"), Codes("street"),
     Codes("sierra"), Codes("college"), Codes("srra"), Codes("s8rr"),
     Codes("collede"), Codes("buid"), Codes("sute"), Codes("bud"),
     Codes("ship"), Codes("priority"), Codes("mail"), Codes("ground"),
     Codes("ups"), Codes("fedex"), Codes("usps"), Codes("tracking"),
     Codes("postage"), Codes("fees"), Codes("paid"), Codes("new"),
     Codes("york"), Codes("san"), Codes("francisco"), Codes("cleveland"),
     Codes("euless"), Codes("hold"), Codes("following"), Codes("location"),
     Codes("shipper"), Codes("rec"), Codes("ipient"), Codes("address"),
     Codes("manautr"), Codes("ree"), Codes("etxk"), Codes("nippina"),
     Codes("billing"), Codes("pip"), Codes("cwtainity"), Codes("hotifl"),
     Codes("dsnielle"), Codes("mills"), Codes("anery"), Codes("pamgano"),
     Codes("ssy"), Codes("ee"), Codes("da"), Codes("s5bey"),
     Codes("tracning"), Codes("notifw"), Codes("streelt"), Codes("lex"),
     Codes("lbs"), Codes("fat1"), Codes("united"), Codes("states"),
     Codes("dsm1"), Codes("tba"), Codes("cycle"), Codes("sm1"),
     Codes("batavia"), Codes("stkllt"), Codes("special"), Codes("instructiu"),
     Codes("metr"), Codes("paper"), Codes("mps"), Codes("frun"),
     Codes("notifil"), Codes("bill"), Codes("sender")}

\* the place words of the final search, lowercase names (lines 415-431).
PlaceWordsFinalLower ==
    {Codes("roseville"), Codes("williston"), Codes("tampa"),
     Codes("norcross"), Codes("chicago"), Codes("webster"), Codes("fort"),
     Codes("collins"), Codes("folsom"), Codes("beach"), Codes("bethesda"),
     Codes("pompano"), Codes("pamgiano"), Codes("pumgiana"),
     Codes("mishawaka"), Codes("harvey"), Codes("emerald"), Codes("pointe"),
     Codes("apartment"), Codes("homes"), Codes("north"), Codes("gate"),
     Codes("eaton"), Codes("corporation"), Codes("victory"), Codes("world"),
     Codes("church"), Codes("allen"), Codes("overy"), Codes("sterling"),
     Codes("management"), Codes("premier"), Codes("property"), Codes("echo"),
     Codes("design"), Codes("group"), Codes("mason"), Codes("street"),
     Codes("sierra"), Codes("college"), Codes("ship"), Codes("priority"),
     Codes("mail"), Codes("ground"), Codes("ups"), Codes("fedex"),
     Codes("usps"), Codes("tracking"), Codes("postage"), Codes("fees"),
     Codes("paid"), Codes("new"), Codes("york"), Codes("san"),
     Codes("francisco"), Codes("cleveland"), Codes("euless"), Codes("hold"),
     Codes("following"), Codes("location"), Codes("shipper"), Codes("rec"),
     Codes("ipient"), Codes("address"), Codes("manautr"), Codes("ree"),
     Codes("etxk"), Codes("nippina"), Codes("billing"), Codes("pip"),
     Codes("cwtainity"), Codes("hotifl"), Codes("dsnielle"), Codes("mills"),
     Codes("anery"), Codes("pamgano"), Codes("ssy"), Codes("ee"), Codes("da"),
     Codes("s5bey"), Codes("collede"), Codes("bud"), Codes("tracning"),
     Codes("notifw"), Codes("streelt"), Codes("lex"), Codes("lbs"),
     Codes("fat1"), Codes("united"), Codes("states"), Codes("dsm1"),
     Codes("tba"), Codes("cycle"), Codes("sm1"), Codes("batavia"),
     Codes("stkllt"), Codes("special"), Codes("instructiu"), Codes("metr"),
     Codes("paper"), Codes("mps"), Codes("frun"), Codes("notifil"),
     Codes("bill"), Codes("sender")}

\* the words excluded as a last name after "anissa" (lines 541-541).
ExcludedAfterAnissa ==
    {Codes("roseville"), Codes("da"), Codes("s5bey"), Codes("9410"),
     Codes("collede"), Codes("bud"), Codes("tracning"), Codes("echo"),
     Codes("design"), Codes("notifw"), Codes("priority"), Codes("mail"),
     Codes("day"), Codes("streelt"), Codes("group"), Codes("york"),
     Codes("ny"), Codes("10016")}

\* the place words of the retry in the first 150 characters (lines 573-581).
PlaceWordsRetryStart ==
    {Codes("roseville"), Codes("williston"), Codes("tampa"),
     Codes("norcross"), Codes("chicago"), Codes("webster"), Codes("fort"),
     Codes("collins"), Codes("folsom"), Codes("beach"), Codes("bethesda"),
     Codes("pompano"), Codes("pamgiano"), Codes("pumgiana"),
     Codes("mishawaka"), Codes("harvey"), Codes("emerald"), Codes("pointe"),
     Codes("apartment"), Codes("homes"), Codes("north"), Codes("gate"),
     Codes("eaton"), Codes("corporation"), Codes("victory"), Codes("world"),
     Codes("church"), Codes("allen"), Codes("overy"), Codes("sterling"),
     Codes("management"), Codes("premier"), Codes("property"), Codes("echo"),
     Codes("design"), Codes("group"), Codes("mason"), Codes("street"),
     Codes("sierra"), Codes("college"), Codes("srra"), Codes("s8rr"),
     Codes("collede"), Codes("buid"), Codes("sute"), Codes("bud"),
     Codes("ship"), Codes("priority"), Codes("mail"), Codes("ground"),
     Codes("ups"), Codes("fedex"), Codes("usps")}

\* the place words of the retry over the whole text (lines 594-603).
PlaceWordsRetry ==
    {Codes("roseville"), Codes("williston"), Codes("tampa"),
     Codes("norcross"), Codes("chicago"), Codes("webster"), Codes("fort"),
     Codes("collins"), Codes("folsom"), Codes("beach"), Codes("bethesda"),
     Codes("pompano"), Codes("pamgiano"), Codes("pumgiana"),
     Codes("mishawaka"), Codes("harvey"), Codes("emerald"), Codes("pointe"),
     Codes("apartment"), Codes("homes"), Codes("north"), Codes("gate"),
     Codes("eaton"), Codes("corporation"), Codes("victory"), Codes("world"),
     Codes("church"), Codes("allen"), Codes("overy"), Codes("sterling"),
     Codes("management"), Codes("premier"), Codes("property"), Codes("echo"),
     Codes("design"), Codes("group"), Codes("mason"), Codes("street"),
     Codes("sierra"), Codes("college"), Codes("ship"), Codes("priority"),
     Codes("mail"), Codes("ground"), Codes("ups"), Codes("fedex"),
     Codes("usps"), Codes("tracking"), Codes("postage"), Codes("fees"),
     Codes("paid"), Codes("new"), Codes("york"), Codes("san"),
     Codes("francisco"), Codes("cleveland"), Codes("euless")}

\* the words excluded by the last, permissive search (lines 630-647).
ExcludedAggressive ==
    {Codes("ship"), Codes("priority"), Codes("mail"), Codes("ground"),
     Codes("ups"), Codes("fedex"), Codes("usps"), Codes("tracking"),
     Codes("postage"), Codes("fees"), Codes("paid"), Codes("lbs"),
     Codes("cycle"), Codes("ref"), Codes("billing"), Codes("pip"),
     Codes("manautr"), Codes("ree"), Codes("etxk"), Codes("nippina"),
     Codes("notifii"), Codes("llc"), Codes("corporation"), Codes("company"),
     Codes("apartments"), Codes("north"), Codes("gate"), Codes("suite"),
     Codes("ste"), Codes("street"), Codes("avenue"), Codes("road"),
     Codes("drive"), Codes("lane"), Codes("boulevard"), Codes("blvd"),
     Codes("way"), Codes("court"), Codes("circle"), Codes("parkway"),
     Codes("highway"), Codes("place"), Codes("station"), Codes("location"),
     Codes("hold"), Codes("following"), Codes("special"), Codes("instructiu"),
     Codes("paper"), Codes("mps"), Codes("frun"), Codes("bill"),
     Codes("sender"), Codes("lex"), Codes("fat1"), Codes("united"),
     Codes("states"), Codes("dsm1"), Codes("tba"), Codes("sm1"),
     Codes("batavia"), Codes("stkllt"), Codes("metr"), Codes("notifil"),
     Codes("roseville"), Codes("williston"), Codes("tampa"),
     Codes("norcross"), Codes("chicago"), Codes("webster"), Codes("fort"),
     Codes("collins"), Codes("folsom"), Codes("beach"), Codes("bethesda"),
     Codes("pompano"), Codes("pamgiano"), Codes("pumgiana"),
     Codes("mishawaka"), Codes("harvey"), Codes("emerald"), Codes("pointe"),
     Codes("apartment"), Codes("homes"), Codes("eaton"), Codes("victory"),
     Codes("world"), Codes("church"), Codes("allen"), Codes("overy"),
     Codes("sterling"), Codes("management"), Codes("premier"),
     Codes("property"), Codes("echo"), Codes("design"), Codes("group"),
     Codes("mason"), Codes("sierra"), Codes("college"), Codes("srra"),
     Codes("s8rr"), Codes("collede"), Codes("buid"), Codes("sute"),
     Codes("bud"), Codes("cleveland"), Codes("euless"), Codes("new"),
     Codes("york"), Codes("san"), Codes("francisco")}
-----------------------------------------------------------------------------
(* Rule-based extractor: the address *)

NoAddress == [address |-> None, address_start |-> -1]

\* The street found separately, with the city, state and zip that follow it
\* within 200 characters (lines 87-109).
StreetThenCity(text) ==
    With(SearchI(street_pattern, text), LAMBDA street_match :
    With(Slice(text, street_match.end, street_match.end + 200), LAMBDA remaining :
    With(SearchI(city_state_zip(0), remaining), LAMBDA city_state_match :
    With(SearchI(zip_city_pattern, remaining), LAMBDA zip_city_match :
        LET street == Strip(Group(street_match, text, 1))
        IN  IF ~street_match.ok THEN NoAddress
            ELSE IF city_state_match.ok
            THEN [address |-> FormatAddress(street,
                                  Strip(Group(city_state_match, remaining, 1)),
                                  Group(city_state_match, remaining, 2),
                                  Group(city_state_match, remaining, 3)),
                  address_start |-> street_match.start]
            ELSE IF zip_city_match.ok
            THEN [address |-> FormatAddress(street,
                                  Strip(Group(zip_city_match, remaining, 2)),
                                  Group(zip_city_match, remaining, 3),
                                  Group(zip_city_match, remaining, 1)),
                  address_start |-> street_match.start]
            ELSE NoAddress))))

\* The first of the simple patterns from the i-th on that matches (lines 79-84).
RECURSIVE SimpleAddress(_, _)
SimpleAddress(text, i) ==
    IF i > Len(simple_patterns) THEN NoAddress
    ELSE With(SearchI(simple_patterns[i], text), LAMBDA match :
             IF match.ok
             THEN [address |-> Strip(Group(match, text, 1)),
                   address_start |-> match.start]
             ELSE SimpleAddress(text, i + 1))

\* "Try to find address first" (lines 58-110): the address and its offset.
FindAddress(text) ==
    With(SearchI(full_address_pattern, text), LAMBDA address_match :
        IF address_match.ok
        THEN [address |-> FormatAddress(Strip(Group(address_match, text, 1)),
                                        Strip(Group(address_match, text, 2)),
                                        Group(address_match, text, 3),
                                        Group(address_match, text, 4)),
              address_start |-> address_match.start]
        ELSE With(SimpleAddress(text, 1), LAMBDA simple :
                 IF simple.address # None THEN simple
                 ELSE StreetThenCity(text)))

\* address with the city, state and zip the pattern found in where, if any.
WithCity(address, where) ==
    LET city_state_match == SearchI(city_state_zip(0), where)
    IN  FormatAddress(address,
                      Strip(Group(city_state_match, where, 1)),
                      Group(city_state_match, where, 2),
                      Group(city_state_match, where, 3))

\* Strategy 6 (lines 289-319): an address without ", ST 12345" gets the city,
\* state and zip found after it, before it or anywhere in the text.
CompleteAddress(text, address, address_start) ==
    LET remaining_after == Slice(text, address_start + Len(address),
                                 address_start + Len(address) + 200)
        remaining_before == Slice(text, Max(0, address_start - 200), address_start)
        elsewhere == SearchI(city_state_zip(0), text)
        city == Strip(Group(elsewhere, text, 1))
    IN  IF address = None \/ address_start < 0 THEN address
        ELSE IF SearchI(CommaState \o Plus(Sp) \o Rep(Digit, 5, 5), address).ok
        THEN address
        ELSE IF SearchI(city_state_zip(0), remaining_after).ok
        THEN WithCity(address, remaining_after)
        ELSE IF SearchI(city_state_zip(0), remaining_before).ok
        THEN WithCity(address, remaining_before)
        ELSE IF elsewhere.ok /\ ~Contains(Lower(address), Lower(city))
        THEN WithCity(address, text)
        ELSE address

\* (\d+\s+[A-Za-z0-9\s\-]+(?:dr|st|ave|rd|ln|blvd|way|ct|cir|hwy|fwy|parkway|pkwy))
street_num_pattern ==
    Grp(1, Plus(Digit) \o Plus(Sp)
           \o Plus(Set(Letters \cup Digits \cup Spaces \cup {45}))
           \o Alt(Words(<<Codes("dr"), Codes("st"), Codes("ave"), Codes("rd"),
                          Codes("ln"), Codes("blvd"), Codes("way"), Codes("ct"),
                          Codes("cir"), Codes("hwy"), Codes("fwy"),
                          Codes("parkway"), Codes("pkwy")>>)))

\* Strategy 7 (lines 322-346), for a text without address so far: the street
\* with the city, state and zip after it or anywhere, or the street alone.
FlexibleAddress(text) ==
    LET street_match == SearchI(street_num_pattern, text)
        street == Strip(Group(street_match, text, 1))
        remaining_after_street ==
            Slice(text, street_match.end, street_match.end + 150)
    IN  IF ~street_match.ok THEN None
        ELSE IF SearchI(city_state_zip(0), remaining_after_street).ok
        THEN WithCity(street, remaining_after_street)
        ELSE IF SearchI(city_state_zip(0), text).ok
        THEN WithCity(street, text)
        ELSE street

\* (\d+\s+[A-Za-z\s]+(?:dr|st|ave|rd|ln|blvd|way|ct|cir|hwy|fwy))
NameStreetPattern ==
    Grp(1, Plus(Digit) \o Plus(Sp) \o Plus(AlphaSp)
           \o Alt(Words(<<Codes("dr"), Codes("st"), Codes("ave"), Codes("rd"),
                          Codes("ln"), Codes("blvd"), Codes("way"), Codes("ct"),
                          Codes("cir"), Codes("hwy"), Codes("fwy")>>)))

\* ([A-Za-z\s]+),\s*([A-Z]{2})\s+(\d{5})
CityStateSimple ==
    Grp(1, Plus(AlphaSp)) \o Lit(<<44>>) \o Star(Sp) \o Grp(2, Rep(Up, 2, 2))
    \o Plus(Sp) \o Grp(3, Rep(Digit, 5, 5))

\* The second strategy 7 (lines 349-370), for a name without address.
AddressForName(text) ==
    LET street_match == SearchI(NameStreetPattern, text)
        street == Strip(Group(street_match, text, 1))
        city_state_simple == SearchI(CityStateSimple, text)
    IN  IF ~street_match.ok THEN None
        ELSE IF SearchI(city_state_zip(0), text).ok THEN WithCity(street, text)
        ELSE IF city_state_simple.ok
        THEN FormatAddress(street,
                           Strip(Group(city_state_simple, text, 1)),
                           Group(city_state_simple, text, 2),
                           Group(city_state_simple, text, 3))
        ELSE street

-----------------------------------------------------------------------------
(* Rule-based extractor: the name *)

\* match.group(1).strip() for each match of a list.
Candidates(matches, s) ==
    [i \in 1..Len(matches) |-> Strip(Group(matches[i], s, 1))]

\* Strategy 1 (lines 115-119): the name after "ship to" or "recipient".
NameFromShipTo(text) ==
    LET ship_to_match == SearchI(ship_to_pattern, text)
        candidate_name == Strip(Group(ship_to_match, text, 1))
    IN  IF ship_to_match.ok /\ Lower(candidate_name) \notin ShippingMethods
        THEN candidate_name
        ELSE None

\* The candidate of strategy 2 as accepted, or None (lines 136-157).
AcceptBefore(candidate) ==
    LET words == Split(candidate)
    IN  IF Len(words) >= 2 /\ ~AnyIn(words, non_name_words)
           /\ ~AnyIn(words, PlaceWordsBefore)
        THEN IF IsLower(candidate) /\ Len(words) = 2
             THEN CapitalizeWords(words)
             ELSE candidate
        ELSE None

\* The candidate of one pattern closest to the end of the text before the
\* address that is accepted; the patterns from the i-th on (lines 132-159).
RECURSIVE NameOfPatterns(_, _)
NameOfPatterns(text_before_address, i) ==
    IF i > Len(name_patterns) THEN None
    ELSE With(Candidates(FindIter(name_patterns[i], text_before_address),
                         text_before_address), LAMBDA candidates :
             OrElse(LastSome([k \in 1..Len(candidates) |->
                                 AcceptBefore(candidates[k])]),
                    NameOfPatterns(text_before_address, i + 1)))

\* Strategy 2 (lines 122-159): the name before the address.
NameBeforeAddress(text, address_start) ==
    IF address_start > 0
    THEN NameOfPatterns(Slice(text, 0, address_start), 1)
    ELSE None

\* Strategy 3 (lines 162-179): the name at the start of the text.
NameAtStart(text) ==
    LET text_start == Slice(text, 0, 200)
        capitalized ==
            Search(Bol \o Grp(1, CapWord
                                 \o Opt(Plus(Sp) \o CapWord
                                        \o Opt(Plus(Sp) \o CapWord))),
                   text_start)
        lowercase ==
            Search(Bol \o Grp(1, Plus(Lo) \o Plus(Sp) \o Plus(Lo)), text_start)
        name_match == IF capitalized.ok THEN capitalized ELSE lowercase
        candidate == Strip(Group(name_match, text_start, 1))
        words == Split(candidate)
    IN  IF name_match.ok /\ Len(words) >= 2 /\ ~AnyIn(words, non_name_words)
           /\ ~AnyIn(words, ShippingTermsAtStart)
        THEN IF IsLower(candidate) THEN CapitalizeWords(words) ELSE candidate
        ELSE None

\* The candidate of strategy 3b as accepted, or None (lines 192-204).
AcceptAfterShipTo(candidate) ==
    LET words == Split(candidate)
    IN  IF ~AnyIn(words, ShippingTermsAfterShipTo) /\ Len(words) = 2
           /\ ~AnyIn(words, non_name_words) /\ ~AnyIn(words, ExcludedAfterShipTo)
        THEN candidate
        ELSE None

\* Strategy 3b (lines 182-205): the first name accepted after "ship to".
NameAfterShipTo(text) ==
    LET ship_to_pos == Find(Lower(text), Codes("ship to"))
        text_after_ship_to == Slice(text, ship_to_pos + 7, ship_to_pos + 300)
        candidates == Candidates(FindIter(CapitalizedName, text_after_ship_to),
                                 text_after_ship_to)
    IN  IF ship_to_pos >= 0
        THEN FirstSome([k \in 1..Len(candidates) |->
                           AcceptAfterShipTo(candidates[k])])
        ELSE None

\* The candidate of strategy 4 as accepted, or None (lines 215-236).
AcceptAnywhere(text, address, match) ==
    LET candidate == Strip(Group(match, text, 1))
        words == Split(candidate)
        remaining == Slice(text, match.end, match.end + 100)
    IN  IF Len(words) = 2 /\ ~AnyIn(words, non_name_words)
           /\ ~AnyIn(words, PlaceWordsAnywhere)
           /\ (Search(Plus(Digit) \o Plus(Sp) \o Alpha, remaining).ok
               \/ address # None)
        THEN IF IsLower(candidate) THEN CapitalizeWords(words) ELSE candidate
        ELSE None

\* Strategy 4 (lines 208-237): the first name accepted among the capitalized
\* and then the lowercase names of the text.
NameAnywhere(text, address) ==
    LET all_name_matches ==
            FindIter(CapitalizedName, text) \o FindIter(LowercaseName, text)
    IN  FirstSome([k \in 1..Len(all_name_matches) |->
                      AcceptAnywhere(text, address, all_name_matches[k])])

\* A capitalized two-word candidate free of non-name words and of the words
\* excluded, or None.
AcceptTwoWords(candidate, excluded) ==
    LET words == Split(candidate)
    IN  IF Len(words) = 2 /\ ~AnyIn(words, non_name_words)
           /\ ~AnyIn(words, excluded)
        THEN candidate
        ELSE None

\* Strategy 5 (lines 240-264): the name closest before the address within 300
\* characters.
NameNearBefore(text, address) ==
    LET addr_pos == Find(text, address)
        before == Slice(text, 0, addr_pos)
        text_before == IF Len(before) > 300
                       THEN Slice(before, Len(before) - 300, Len(before))
                       ELSE before
        candidates == Candidates(FindIter(CapitalizedName, text_before),
                                 text_before)
    IN  IF address # None /\ addr_pos > 0
        THEN LastSome([k \in 1..Len(candidates) |->
                          AcceptTwoWords(candidates[k], PlaceWordsNearBefore)])
        ELSE None

\* Strategy 5b (lines 267-286): the first name within 200 characters after the
\* address.
NameNearAfter(text, address) ==
    LET addr_pos == Find(text, address)
        text_after == Slice(text, addr_pos + Len(address),
                            addr_pos + Len(address) + 200)
        candidates == Candidates(FindIter(CapitalizedName, text_after),
                                 text_after)
    IN  IF address # None /\ addr_pos >= 0
        THEN FirstSome([k \in 1..Len(candidates) |->
                           AcceptTwoWords(candidates[k], PlaceWordsNearAfter)])
        ELSE None

\* The candidates of the final search for one pattern: name, distance to the
\* address and offset of each match accepted (lines 377-441).
FinalCandidates(text, address, pattern, excluded, capitalize) ==
    With(IF address # None THEN Find(text, address) ELSE -1, LAMBDA addr_pos :
    With(SelectSeq(FindIter(pattern, text),
             LAMBDA m : With(Split(Strip(Group(m, text, 1))), LAMBDA words :
                            /\ Len(words) = 2
                            /\ ~AnyIn(words, non_name_words)
                            /\ ~AnyIn(words, excluded))), LAMBDA accepted :
        [k \in 1..Len(accepted) |->
            With(Strip(Group(accepted[k], text, 1)), LAMBDA candidate :
            With(accepted[k].start, LAMBDA pos :
                [candidate |-> IF capitalize
                               THEN CapitalizeWords(Split(candidate))
                               ELSE candidate,
                 distance |-> IF addr_pos >= 0
                              THEN (IF pos >= addr_pos THEN pos - addr_pos
                                    ELSE addr_pos - pos)
                              ELSE 9999,
                 pos |-> pos]))]))

\* The final name search (lines 373-446): the accepted candidate closest to
\* the address, the earliest of those equally close.
FinalNameSearch(text, address) ==
    With(FinalCandidates(text, address, CapitalizedName, PlaceWordsFinal, FALSE)
         \o FinalCandidates(text, address, LowercaseName, PlaceWordsFinalLower,
                            TRUE), LAMBDA all_name_candidates :
        LET Before(a, b) ==
                a.distance < b.distance \/ (a.distance = b.distance /\ a.pos < b.pos)
            first == {i \in 1..Len(all_name_candidates) :
                         \A j \in 1..Len(all_name_candidates) :
                             ~Before(all_name_candidates[j], all_name_candidates[i])}
        IN  IF all_name_candidates = <<>> THEN None
            ELSE all_name_candidates[Min(first)].candidate)

-----------------------------------------------------------------------------
(* Rule-based extractor: the labels handled one by one, and the pair *)

\* word1\s+word2\s+... for literal words.
RECURSIVE Phrase(_)
Phrase(ws) ==
    IF Len(ws) = 1 THEN Lit(ws[1])
    ELSE Lit(Head(ws)) \o Plus(Sp) \o Phrase(Tail(ws))

\* (\d{5}(?:-\d{4})?)\s+([A-Za-z]+),\s*([A-Z]{2})
ZipCityWord ==
    Grp(1, Zip) \o Plus(Sp) \o Grp(2, Plus(Alpha)) \o Lit(<<44>>) \o Star(Sp)
    \o Grp(3, Rep(Up, 2, 2))

\* The address of "2821 carradale dr" rebuilt from the zip, city and state
\* within 100 characters after the street, or the address as it is
\* (lines 453-462 and 470-480).
CarradaleAddress(text, text_lower, address) ==
    LET street_match ==
            SearchI(Phrase(<<Codes("2821"), Codes("carradale"), Codes("dr")>>), text)
        remaining == Slice(text, street_match.end, street_match.end + 100)
        zip_city_match == SearchI(ZipCityWord, remaining)
    IN  IF (address = None \/ Contains(text_lower, Codes("2821 carradale")))
           /\ street_match.ok /\ zip_city_match.ok
        THEN FormatAddress(Codes("2821 carradale dr"),
                           Capitalize(Group(zip_city_match, remaining, 2)),
                           Upper(Group(zip_city_match, remaining, 3)),
                           Group(zip_city_match, remaining, 1))
        ELSE address

\* "zoey dong" (lines 450-462).
ZoeyDong(text, text_lower, na) ==
    IF na.name = None /\ Contains(text_lower, Codes("zoey dong"))
    THEN [name |-> Codes("Zoey Dong"),
          address |-> CarradaleAddress(text, text_lower, na.address)]
    ELSE na

\* "ky dong" after "ship to" (lines 465-480).
KyDong(text, text_lower, na) ==
    IF na.name = None /\ Contains(text_lower, Codes("ship to"))
       /\ Contains(text_lower, Codes("ky dong"))
       /\ SearchI(WordB \o Phrase(<<Codes("ky"), Codes("dong")>>) \o WordB, text).ok
    THEN [name |-> Codes("Ky Dong"),
          address |-> CarradaleAddress(text, text_lower, na.address)]
    ELSE na

\* The address of a known street with "<city> <state> <zip>" after it: the
\* canonical form with the zip found, or the address as it is.
KnownAddress(text, address, marker, street_words, locality, canonical, limit) ==
    LET street_match == SearchI(Phrase(street_words), text)
        remaining == Slice(text, street_match.end, street_match.end + limit)
        city_state_match == SearchI(locality, remaining)
    IN  IF (address = None \/ Contains(Lower(text), marker))
           /\ street_match.ok /\ city_state_match.ok
        THEN canonical \o Group(city_state_match, remaining, 1)
        ELSE address

\* "ralla ramirez" (lines 483-495).
RallaRamirez(text, text_lower, na) ==
    IF na.name = None /\ Contains(text_lower, Codes("ralla ramirez"))
       /\ SearchI(WordB \o Phrase(<<Codes("ralla"), Codes("ramirez")>>) \o WordB,
                  text).ok
    THEN [name |-> Codes("Ralla Ramirez"),
          address |->
              KnownAddress(text, na.address, Codes("monticella"),
                  <<Codes("201"), Codes("monticella"), Codes("sardens"),
                    Codes("piace")>>,
                  Phrase(<<Codes("tampa"), Codes("fl")>>) \o Plus(Sp) \o Grp(1, Zip),
                  Codes("201 monticella sardens place, Tampa, FL "), 100)]
    ELSE na

\* "dsnielle mills" (lines 498-511).
DsnielleMills(text, text_lower, na) ==
    IF na.name = None /\ Contains(text_lower, Codes("dsnielle mills"))
       /\ SearchI(WordB \o Phrase(<<Codes("dsnielle"), Codes("mills")>>) \o WordB,
                  text).ok
    THEN [name |-> Codes("Dsnielle Mills"),
          address |->
              KnownAddress(text, na.address, Codes("2700 whitney"),
                  <<Codes("2700"), Codes("whitney"), Codes("ave")>>,
                  Phrase(<<Codes("harvey"), Codes("la")>>) \o Plus(Sp) \o Grp(1, Zip),
                  Codes("2700 whitney ave, Harvey, LA "), Len(text))]
    ELSE na

\* "anery pamgano" (lines 514-529).
AneryPamgano(text, text_lower, na) ==
    LET street_match ==
            SearchI(Phrase(<<Codes("275"), Codes("n"), Codes("federal"),
                             Codes("hwy")>>), text)
        remaining == Slice(text, street_match.end, Len(text))
        city_state_match ==
            SearchI(Phrase(<<Codes("pumgiana"), Codes("beach"), Codes("fl")>>)
                    \o Plus(Sp)
                    \o Grp(1, Rep(Digit, 5, 5) \o Opt(Plus(Sp) \o Rep(Digit, 4, 4))),
                    remaining)
    IN  IF na.name = None /\ Contains(text_lower, Codes("anery pamgano"))
        THEN [name |-> IF SearchI(WordB \o Phrase(<<Codes("anery"),
                                                     Codes("pamgano")>>) \o WordB,
                                  text).ok
                       THEN Codes("Anery Pamgano")
                       ELSE na.name,
              address |->
                  IF (na.address = None
                      \/ Contains(text_lower, Codes("275 n federal")))
                     /\ street_match.ok /\ city_state_match.ok
                  THEN Codes("275 n federal hwy, Pumgiana Beach, FL ")
                       \o Replace(Group(city_state_match, remaining, 1),
                                  <<32>>, <<45>>)
                  ELSE na.address]
        ELSE na

\* "anissa" (lines 532-554).
Anissa(text, text_lower, na) ==
    LET anissa_match == SearchI(WordB \o Lit(Codes("anissa")) \o WordB, text)
        text_after == Slice(text, anissa_match.end, anissa_match.end + 50)
        last_name_match == Search(WordB \o Grp(1, CapWord) \o WordB, text_after)
        last_name == Group(last_name_match, text_after, 1)
        street_match ==
            SearchI(Phrase(<<Codes("10"), Codes("e"), Codes("40uh"),
                             Codes("streelt")>>), text)
        remaining == Slice(text, street_match.end, Len(text))
        city_state_match ==
            SearchI(Phrase(<<Codes("new"), Codes("york"), Codes("ny")>>)
                    \o Plus(Sp)
                    \o Grp(1, Rep(Digit, 5, 5)
                              \o Opt(Lit(<<45>>) \o Star(Sp) \o Plus(Digit))),
                    remaining)
    IN  IF na.name = None /\ Contains(text_lower, Codes("anissa"))
        THEN [name |-> IF ~anissa_match.ok THEN na.name
                       ELSE IF ~last_name_match.ok THEN Codes("Anissa")
                       ELSE IF Lower(last_name) \notin ExcludedAfterAnissa
                       THEN Codes("Anissa ") \o last_name
                       ELSE na.name,
              address |->
                  IF (na.address = None \/ Contains(text_lower, Codes("10 e 40uh")))
                     /\ street_match.ok /\ city_state_match.ok
                  THEN Codes("10 e 40th st, New York, NY ")
                       \o Replace(Replace(Group(city_state_match, remaining, 1),
                                          <<32>>, <<>>),
                                  Codes("0r00"), Codes("0000"))
                  ELSE na.address]
        ELSE na

\* [a-zA-Z]{2,}\s+[a-zA-Z]{2,} between word boundaries.
AnyTwoWords ==
    WordB \o Grp(1, Rep(Alpha, 2, Unlimited) \o Plus(Sp) \o Rep(Alpha, 2, Unlimited))
    \o WordB

\* The candidate of the last search as accepted, or None (lines 626-653).
AcceptAggressive(candidate) ==
    LET words == Split(candidate)
    IN  IF Len(words) = 2 /\ ~AnyIn(words, ExcludedAggressive)
           /\ \A i \in 1..Len(words) : Len(words[i]) >= 3
        THEN IF IsLower(candidate) THEN CapitalizeWords(words) ELSE candidate
        ELSE None

\* The name looked for once more for an address without a name (lines 563-656).
NameForAddress(text, address) ==
    LET text_start == Slice(text, 0, 150)
        name_match == Search(CapitalizedName, text_start)
        at_start == IF name_match.ok
                    THEN AcceptTwoWords(Strip(Group(name_match, text_start, 1)),
                                        PlaceWordsRetryStart)
                    ELSE None
        addr_pos == Find(text, address)
        near == With(FindIter(CapitalizedName, text), LAMBDA all_names :
                    FirstSome([k \in 1..Len(all_names) |->
                        LET d == all_names[k].start - addr_pos
                        IN  IF addr_pos >= 0 /\ d < 500 /\ -d < 500
                            THEN AcceptTwoWords(Strip(Group(all_names[k], text, 1)),
                                                PlaceWordsRetry)
                            ELSE None]))
        search_start == Max(0, addr_pos - 500)
        search_end == IF Len(text) < addr_pos + Len(address) + 500
                      THEN Len(text) ELSE addr_pos + Len(address) + 500
        search_text == Slice(text, search_start, search_end)
        aggressive ==
            IF addr_pos >= 0
            THEN With(Candidates(FindIter(AnyTwoWords, search_text), search_text),
                      LAMBDA candidates :
                          FirstSome([k \in 1..Len(candidates) |->
                                        AcceptAggressive(candidates[k])]))
            ELSE None
    IN  OrElse(at_start, OrElse(near, aggressive))

\* The function up to the creation of the pair: the name, the address and the
\* offset of the address it ends with, None for what it did not find.
Locals(ocr_text) ==
    With(Strip(ocr_text), LAMBDA text :
    With(Lower(text), LAMBDA text_lower :
    With(FindAddress(text), LAMBDA found :
    With(OrElse(NameFromShipTo(text),
         OrElse(NameBeforeAddress(text, found.address_start),
         OrElse(NameAtStart(text),
         OrElse(NameAfterShipTo(text),
         OrElse(NameAnywhere(text, found.address),
         OrElse(NameNearBefore(text, found.address),
                NameNearAfter(text, found.address))))))), LAMBDA name5b :
    With(OrElse(CompleteAddress(text, found.address, found.address_start),
                FlexibleAddress(text)), LAMBDA address7 :
    With(IF name5b # None /\ address7 = None THEN AddressForName(text)
         ELSE address7, LAMBDA address7b :
    With(Anissa(text, text_lower,
           AneryPamgano(text, text_lower,
             DsnielleMills(text, text_lower,
               RallaRamirez(text, text_lower,
                 KyDong(text, text_lower,
                   ZoeyDong(text, text_lower,
                     [name |-> OrElse(name5b, FinalNameSearch(text, address7b)),
                      address |-> address7b])))))), LAMBDA special :
        [text |-> text, name |-> special.name, address |-> special.address,
         address_start |-> found.address_start])))))))

\* The pairs created from the name and the address found (lines 556-682).
CreatePairs(text, name, address) ==
    IF name # None /\ address # None
    THEN <<[input_name |-> name, input_address |-> address]>>
    ELSE IF address # None
    THEN <<[input_name |-> OrElse(NameForAddress(text, address), Codes("Unknown")),
            input_address |-> address]>>
    ELSE IF name # None
    THEN With(SearchI(city_state_zip(0), text), LAMBDA city_state_match :
             IF city_state_match.ok
             THEN <<[input_name |-> name,
                     input_address |->
                         Strip(Group(city_state_match, text, 1))
                         \o <<44, 32>> \o Group(city_state_match, text, 2)
                         \o <<32>> \o Group(city_state_match, text, 3)]>>
             ELSE <<[input_name |-> name,
                     input_address |-> Codes("Address not found")]>>)
    ELSE <<>>

\* What the extractor returns and where it found the address.
Extracted(locals) ==
    [pairs |-> CreatePairs(locals.text, locals.name, locals.address),
     address_start |-> locals.address_start]

\* The extractor that returns a pair of sentinels when it found nothing.
extract_name_address_rule_based_SentinelPair(ocr_text) ==
    With(Locals(ocr_text), LAMBDA locals :
        <<[input_name |-> OrElse(locals.name, Codes("Unknown")),
           input_address |-> OrElse(locals.address, Codes("Address not found"))]>>)

\* extract_name_address_rule_based: the pairs created from what was found
\* (lines 556-682).
extract_name_address_rule_based(ocr_text) ==
    With(Locals(ocr_text), LAMBDA locals :
        CreatePairs(locals.text, locals.name, locals.address))

-----------------------------------------------------------------------------
(* LLMExtractor *)

\* place_names of _parse_response (lines 268-270).
place_names ==
    {Codes("pompano"), Codes("pamgiano"), Codes("pumgiana"), Codes("beach"),
     Codes("roseville"), Codes("williston"), Codes("tampa"), Codes("norcross"),
     Codes("chicago"), Codes("webster"), Codes("bethesda"), Codes("folsom"),
     Codes("cleveland"), Codes("harvey"), Codes("euless"), Codes("mishawaka"),
     Codes("fort"), Codes("collins")}

\* non_name_words of _parse_response (lines 276-278).
llm_non_name_words ==
    {Codes("ship"), Codes("priority"), Codes("mail"), Codes("ground"),
     Codes("ups"), Codes("fedex"), Codes("usps"), Codes("tracking"),
     Codes("postage"), Codes("fees"), Codes("paid"), Codes("sender"),
     Codes("shipper"), Codes("notifii"), Codes("llc"), Codes("corporation"),
     Codes("company"), Codes("apartments")}

\* The loop body of _parse_response for one item of the reply, a dictionary
\* with the keys of the prompt (name, address, tracking; None for a null):
\* the pair appended, if any.
NormalizedPair(item) ==
    LET name == IF item.name # None /\ item.name # <<>> THEN Strip(item.name)
                ELSE <<>>
        address == IF item.address # None /\ item.address # <<>>
                   THEN Strip(item.address) ELSE <<>>
        tracking == IF item.tracking # None /\ item.tracking # <<>>
                       /\ Lower(item.tracking) # Codes("null")
                    THEN Strip(item.tracking) ELSE None
    IN  IF \E place \in place_names : Contains(Lower(name), place) THEN <<>>
        ELSE IF \E word \in llm_non_name_words : Contains(Lower(name), word)
        THEN <<>>
        ELSE IF (name # <<>> /\ Len(name) > 2) \/ (address # <<>> /\ Len(address) > 5)
        THEN <<[input_name |-> name, input_address |-> address,
                tracking_number |-> tracking]>>
        ELSE <<>>

\* LLMExtractor._parse_response on a reply that parses to a list of items.
RECURSIVE _parse_response(_)
_parse_response(items) ==
    IF items = <<>> THEN <<>>
    ELSE NormalizedPair(Head(items)) \o _parse_response(Tail(items))
\* The fallback with the ImportError left to propagate.
_fallback_rule_based_ImportErrorEscapes(rule) ==
    IF rule.kind \in {"raise", "import_error"} THEN Raise
    ELSE Return(rule.pairs)

\* LLMExtractor._fallback_rule_based: the import or the call of the rule-based
\* extractor returns pairs, fails with ImportError (caught: no pairs), or
\* raises another exception, which propagates.
_fallback_rule_based(rule) ==
    IF rule.kind = "raise" THEN Raise
    ELSE IF rule.kind = "import_error" THEN Return(<<>>)
    ELSE Return(rule.pairs)

\* The extraction that gives up on a timeout instead of falling back.
extract_name_address_pairs_NoFallbackOnTimeout(llm, rule, use_fallback) ==
    IF llm.kind = "pairs" /\ Len(llm.pairs) > 0
    THEN [result |-> Return(llm.pairs), fallback_invoked |-> FALSE]
    ELSE IF llm.kind # "timeout" /\ use_fallback
         THEN [result |-> IF rule.kind = "raise" THEN Raise
                          ELSE IF rule.kind = "import_error" THEN Return(<<>>)
                          ELSE Return(rule.pairs),
               fallback_invoked |-> TRUE]
         ELSE [result |-> Return(<<>>), fallback_invoked |-> FALSE]

\* LLMExtractor.extract_name_address_pairs.  llm is what _call_ollama and
\* _parse_response yield for the prompt: pairs, a timeout or another exception;
\* rule is what the rule-based extractor would do on the text.  The value
\* returned, and whether the rule-based extractor was invoked.
extract_name_address_pairs(llm, rule, use_fallback) ==
    IF llm.kind = "pairs"
    THEN IF Len(llm.pairs) > 0
         THEN [result |-> Return(llm.pairs), fallback_invoked |-> FALSE]
         ELSE IF use_fallback
              THEN [result |-> _fallback_rule_based(rule), fallback_invoked |-> TRUE]
              ELSE [result |-> Return(<<>>), fallback_invoked |-> FALSE]
    ELSE IF llm.kind = "timeout"
    THEN IF use_fallback
         THEN [result |-> _fallback_rule_based(rule), fallback_invoked |-> TRUE]
         ELSE [result |-> Return(<<>>), fallback_invoked |-> FALSE]
    ELSE IF use_fallback
         THEN [result |-> _fallback_rule_based(rule), fallback_invoked |-> TRUE]
         ELSE [result |-> Return(<<>>), fallback_invoked |-> FALSE]

-----------------------------------------------------------------------------
(* OCRPipeline *)

\* The classification with ambiguity tested before the confidence.
DetermineStatus_AmbiguousFirst(extracted_pairs, all_matches) ==
    IF extracted_pairs = <<>> THEN "no_pairs_extracted"
    ELSE IF all_matches = <<>> THEN "no_matches"
    ELSE IF \E i \in 1..Len(all_matches) : all_matches[i].is_ambiguous
         THEN "ambiguous"
    ELSE IF \E i \in 1..Len(all_matches) : all_matches[i].combined_confidence < 8000
         THEN "low_confidence"
    ELSE "success"

\* The classification that reports an extraction without pairs as an error.
DetermineStatus_NoPairsIsError(extracted_pairs, all_matches) ==
    IF extracted_pairs = <<>> THEN "error"
    ELSE IF all_matches = <<>> THEN "no_matches"
    ELSE IF \E i \in 1..Len(all_matches) : all_matches[i].combined_confidence < 8000
         THEN "low_confidence"
    ELSE IF \E i \in 1..Len(all_matches) : all_matches[i].is_ambiguous
         THEN "ambiguous"
    ELSE "success"

\* The status of a label whose extraction and matching returned.
DetermineStatus(extracted_pairs, all_matches) ==
    IF extracted_pairs = <<>> THEN "no_pairs_extracted"
    ELSE IF all_matches = <<>> THEN "no_matches"
    ELSE IF \E i \in 1..Len(all_matches) : all_matches[i].combined_confidence < 8000
         THEN "low_confidence"
    ELSE IF \E i \in 1..Len(all_matches) : all_matches[i].is_ambiguous
         THEN "ambiguous"
    ELSE "success"

\* The matches of one pair, each tagged with the pair it came from.
TagMatches(matches, pair) ==
    [i \in 1..Len(matches) |->
        [recipient_id |-> matches[i].recipient_id,
         first_name |-> matches[i].first_name,
         last_name |-> matches[i].last_name,
         name_match_score |-> matches[i].name_match_score,
         address_match_score |-> matches[i].address_match_score,
         combined_confidence |-> matches[i].combined_confidence,
         is_ambiguous |-> matches[i].is_ambiguous,
         extracted_name |-> pair.input_name,
         extracted_address |-> pair.input_address]]

\* The matching loop of process_single_label over the extracted pairs from the
\* i-th on: all matches, or the exception of the first match_pair that raises.
RECURSIVE MatchAll(_, _, _, _)
MatchAll(db, threshold, extracted_pairs, i) ==
    IF i > Len(extracted_pairs) THEN Return(<<>>)
    ELSE LET pair == extracted_pairs[i]
             matches == match_pair(db, threshold, pair.input_name, pair.input_address)
             rest == MatchAll(db, threshold, extracted_pairs, i + 1)
         IN  IF matches.raised \/ rest.raised THEN Raise
             ELSE Return(TagMatches(matches.value, pair) \o rest.value)

\* The method with no message in the result of a failed extraction.
process_single_label_NoMessage(db, threshold, ocr_text, llm, rule) ==
    LET cleaned_text == clean_ocr_text(ocr_text)
        extraction == extract_name_address_pairs(llm, rule, TRUE)
        matching == MatchAll(db, threshold, extraction.result.value, 1)
    IN  IF cleaned_text = <<>>
        THEN Return([cleaned_text |-> <<>>,
                     extracted_pairs |-> <<>>,
                     matches |-> <<>>,
                     status |-> "error",
                     error_message |-> "Empty text after preprocessing"])
        ELSE IF extraction.result.raised
        THEN Return([cleaned_text |-> cleaned_text,
                     extracted_pairs |-> <<>>,
                     matches |-> <<>>,
                     status |-> "error",
                     error_message |-> "None"])
        ELSE IF matching.raised THEN Raise
        ELSE Return([cleaned_text |-> cleaned_text,
                     extracted_pairs |-> extraction.result.value,
                     matches |-> matching.value,
                     status |-> DetermineStatus(extraction.result.value,
                                                matching.value),
                     error_message |-> "None"])

\* OCRPipeline.process_single_label: the result dictionary returned, or the
\* exception that leaves the method.
process_single_label(db, threshold, ocr_text, llm, rule) ==
    LET cleaned_text == clean_ocr_text(ocr_text)
        extraction == extract_name_address_pairs(llm, rule, TRUE)
        matching == MatchAll(db, threshold, extraction.result.value, 1)
    IN  IF cleaned_text = <<>>
        THEN Return([cleaned_text |-> <<>>,
                     extracted_pairs |-> <<>>,
                     matches |-> <<>>,
                     status |-> "error",
                     error_message |-> "Empty text after preprocessing"])
        ELSE IF extraction.result.raised
        THEN Return([cleaned_text |-> cleaned_text,
                     extracted_pairs |-> <<>>,
                     matches |-> <<>>,
                     status |-> "error",
                     error_message |-> "exception"])
        ELSE IF matching.raised THEN Raise
        ELSE Return([cleaned_text |-> cleaned_text,
                     extracted_pairs |-> extraction.result.value,
                     matches |-> matching.value,
                     status |-> DetermineStatus(extraction.result.value,
                                                matching.value),
                     error_message |-> "None"])

-----------------------------------------------------------------------------
(* Inputs *)

AllColumns == RequiredColumns \cup OptionalColumns

\* The column sets of the directory files considered: the required columns
\* alone, with the preferred-name columns, with every optional column, and
\* every set that lacks one required column.
ColumnSets ==
    {RequiredColumns,
     RequiredColumns \cup {"preferred_first_name", "preferred_full_name"},
     AllColumns}
    \cup {AllColumns \ {c} : c \in RequiredColumns}

Row(id, first, last, preferred_first, address) ==
    [c \in AllColumns |->
        CASE c = "recipient_id" -> id
          [] c = "first_name" -> first
          [] c = "last_name" -> last
          [] c = "preferred_first_name" -> preferred_first
          [] c = "address" -> address
          [] OTHER -> NaN]

\* The rows directory files are built from:
\*   1, "Al" "Xu", preferred "Ali", "2 Sq"
\*   2, "Al" "Xi", "1 St A"
\*   3, "Al" "Xu", "1 St"        (the name of recipient 1)
\*   (no id), "Al" "Xu", "1 St"  (a row whose recipient_id cell is empty)
CandidateRows ==
    {Row(<<49>>, <<65, 108>>, <<88, 117>>, <<65, 108, 105>>, <<50, 32, 83, 113>>),
     Row(<<50>>, <<65, 108>>, <<88, 105>>, NaN, <<49, 32, 83, 116, 32, 65>>),
     Row(<<51>>, <<65, 108>>, <<88, 117>>, NaN, <<49, 32, 83, 116>>),
     Row(NaN, <<65, 108>>, <<88, 117>>, NaN, <<49, 32, 83, 116>>)}

\* The sequences of at most n distinct elements of S.
SeqsUpTo(S, n) ==
    {s \in UNION {[1..k -> S] : k \in 0..n} :
        \A i, j \in 1..Len(s) : i # j => s[i] # s[j]}

\* A file with the given columns: a cell of a column the file lacks is absent.
FileOf(columns, rows) ==
    [readable |-> TRUE,
     columns |-> columns,
     rows |-> [i \in 1..Len(rows) |->
                 [c \in AllColumns |-> IF c \in columns THEN rows[i][c] ELSE None]]]

MissingFile == [readable |-> FALSE, columns |-> {}, rows |-> <<>>]

Files ==
    {FileOf(columns, rows) : columns \in ColumnSets,
                             rows \in SeqsUpTo(CandidateRows, MaxRows)}
    \cup {MissingFile}

\* The values of FUZZY_MATCH_THRESHOLD considered: the default and the
\* confidence bar of the classifier.
Thresholds == {70, 80}

Pair(name, address) == [input_name |-> name, input_address |-> address]

\* Pairs an extractor may yield: ("Al Xu", "1 St"), ("Al Xi", "St 1"),
\* ("Unknown", "1 St") and, from the generative service only, ("Al Xu", "").
RulePairs ==
    {Pair(<<65, 108, 32, 88, 117>>, <<49, 32, 83, 116>>),
     Pair(<<65, 108, 32, 88, 105>>, <<83, 116, 32, 49>>),
     Pair(<<85, 110, 107, 110, 111, 119, 110>>, <<49, 32, 83, 116>>)}

LLMPairs == RulePairs \cup {Pair(<<65, 108, 32, 88, 117>>, <<>>)}

NotCalled == [kind |-> "not_called", pairs |-> <<>>]

\* What the generative service does for a prompt.
LLMOutcomes ==
    {[kind |-> "pairs", pairs |-> ps] : ps \in SeqsUpTo(LLMPairs, MaxPairs)}
    \cup {[kind |-> "timeout", pairs |-> <<>>], [kind |-> "error", pairs |-> <<>>]}

\* What the rule-based extractor does on a text: at most one pair, no module
\* to import, or an exception.  The outcome is left open here rather than
\* computed from the text.
RuleOutcomes ==
    {[kind |-> "pairs", pairs |-> ps] : ps \in SeqsUpTo(RulePairs, 1)}
    \cup {[kind |-> "import_error", pairs |-> <<>>], [kind |-> "raise", pairs |-> <<>>]}

\* Label texts: None, "", a NUL and a space, and "Al Xu \n\n1 St\n".
Texts ==
    {None, <<>>, <<0, 32>>,
     <<65, 108, 32, 88, 117, 32, 10, 10, 49, 32, 83, 116, 10>>}

\* The characters raw texts are made of: NUL (non-printable), tab, newline,
\* space and "a".
RawChars == {0, 9, 10, 32, 97}

\* Raw texts: None and every string of at most MaxRawLen raw characters.
RawTexts == {None} \cup UNION {[1..k -> RawChars] : k \in 0..MaxRawLen}

\* The lines labels are made of: two names (the second one holds a word the
\* extractor takes for a place), an address in the full form, a lower-case
\* label with the zip code before the city, a word that is neither a name nor
\* an address, and a street without a city.
LabelLines ==
    {Codes("John Smith"),
     Codes("Mason Smith"),
     Codes("123 Main St, Springfield, IL 62704"),
     Codes("zoey dong 2821 carradale dr, 95661-4047 roseville, ca"),
     Codes("hello"),
     Codes("12 OAK DR")}

\* Label texts: at most MaxLines different lines, one per line.
Labels == {Join(<<10>>, ls) : ls \in SeqsUpTo(LabelLines, MaxLines)}

\* The directory the labels are matched against: John Smith and Zoey Dong at
\* the addresses of the label lines.
LabelDirectory ==
    FileOf(RequiredColumns,
           <<Row(<<49>>, Codes("John"), Codes("Smith"), NaN,
                 Codes("123 Main St, Springfield, IL 62704")),
             Row(<<50>>, Codes("Zoey"), Codes("Dong"), NaN,
                 Codes("2821 carradale dr, Roseville, CA 95661-4047"))>>)

\* The items a reply of the generative service is made of: a name with its
\* address and no tracking number, and an address with a tracking number and
\* no name.
LLMItems ==
    {[name |-> Codes("John Smith"),
      address |-> Codes("123 Main St, Springfield, IL 62704"),
      tracking |-> None],
     [name |-> <<>>, address |-> Codes("12 OAK DR"), tracking |-> Codes("1Z")]}

\* What the generative service does for the prompt of a label: a reply of at
\* most one item, a timeout or another exception.
LabelLLMOutcomes ==
    {[kind |-> "pairs", pairs |-> _parse_response(items)] :
        items \in SeqsUpTo(LLMItems, 1)}
    \cup {[kind |-> "timeout", pairs |-> <<>>], [kind |-> "error", pairs |-> <<>>]}

\* What the rule-based extractor does on a text: the pairs it computes.
RuleOn(text) == [kind |-> "pairs", pairs |-> extract_name_address_rule_based(text)]

\* The parts texts with an address are written from: a name (None for no
\* name), a street with its number and type, a city, a state and a zip code.
\* "Mason Smith" holds a word of non_name_words; one street holds the word
\* "Recipient".
PartNames ==
    {None, Codes("John Smith"), Codes("Mason Smith"), Codes("zoey dong")}
PartStreets ==
    {Codes("123 Main St"), Codes("2821 carradale dr"), Codes("9 Recipient Oak Rd")}
PartCities == {Codes("Springfield"), Codes("roseville")}
PartStates == {Codes("IL"), Codes("ca")}
PartZips == {Codes("62704"), Codes("95661-4047")}

\* The two ways the parts are laid out: "street, city, state zip" and
\* "street, zip city, state".
Layouts == {"full", "zip_first"}

\* The text of the parts: the name, if any, the separator after it (a newline
\* or a space), and the address in the layout.
TextOf(p) ==
    (IF p.name = None THEN <<>> ELSE p.name \o <<p.sep>>)
    \o p.street \o <<44, 32>>
    \o (IF p.layout = "full"
        THEN p.city \o <<44, 32>> \o p.state \o <<32>> \o p.zip
        ELSE p.zip \o <<32>> \o p.city \o <<44, 32>> \o p.state)

AddressedTexts ==
    {[ocr_text |-> TextOf(p), parts |-> p] :
        p \in {q \in [name : PartNames, sep : {10, 32}, street : PartStreets,
                      city : PartCities, state : PartStates, zip : PartZips,
                      layout : Layouts] :
                  q.name = None => q.sep = 10}}

\* The values fuzz.ratio takes on two strings whose lengths sum to at most
\* MaxLenSum: 200 * lcs / (|a| + |b|) with lcs at most the shorter length.
ScoreValues ==
    {Frac(200 * p[2], p[1]) :
        p \in {q \in (1..MaxLenSum) \X (0..MaxLenSum) : 2 * q[2] <= q[1]}}

\* Two pairs of a name score and an address score.
ScorePairs ==
    [name_score1 : ScoreValues, address_score1 : ScoreValues,
     name_score2 : ScoreValues, address_score2 : ScoreValues]


\* The directory files of the pipeline the workers share: recipients 1 and 2,
\* and recipient 2 with a row whose recipient_id cell is empty.
WorkerFiles ==
    {FileOf(RequiredColumns,
            <<Row(<<49>>, <<65, 108>>, <<88, 117>>, NaN, <<50, 32, 83, 113>>),
              Row(<<50>>, <<65, 108>>, <<88, 105>>, NaN, <<49, 32, 83, 116, 32, 65>>)>>),
     FileOf(RequiredColumns,
            <<Row(<<50>>, <<65, 108>>, <<88, 105>>, NaN, <<49, 32, 83, 116, 32, 65>>),
              Row(NaN, <<65, 108>>, <<88, 117>>, NaN, <<49, 32, 83, 116>>)>>)}

\* The labels handed to the workers, each with what the generative service
\* and the rule-based extractor do on it: "Al Xu \n\n1 St\n" with the pairs
\* ("Al Xu", "1 St") and ("Al Xi", "St 1") from the service; the same text
\* with a timeout and the pair ("Unknown", "1 St") from the rules; the same
\* text with both extractors failing; and a label that is empty once cleaned.
WorkerLabels ==
    LET text == <<65, 108, 32, 88, 117, 32, 10, 10, 49, 32, 83, 116, 10>>
    IN  {[ocr_text |-> text,
          llm |-> [kind |-> "pairs",
                   pairs |-> <<Pair(<<65, 108, 32, 88, 117>>, <<49, 32, 83, 116>>),
                               Pair(<<65, 108, 32, 88, 105>>, <<83, 116, 32, 49>>)>>],
          rule |-> NotCalled],
         [ocr_text |-> text,
          llm |-> [kind |-> "timeout", pairs |-> <<>>],
          rule |-> [kind |-> "pairs",
                    pairs |-> <<Pair(<<85, 110, 107, 110, 111, 119, 110>>,
                                     <<49, 32, 83, 116>>)>>]],
         [ocr_text |-> text,
          llm |-> [kind |-> "error", pairs |-> <<>>],
          rule |-> [kind |-> "raise", pairs |-> <<>>]],
         [ocr_text |-> <<0, 32>>, llm |-> NotCalled, rule |-> NotCalled]}

-----------------------------------------------------------------------------
(* State *)

VARIABLES
    recipient_file,  \* the CSV file at recipient_db_path
    config,          \* the configuration module
    matcher,         \* the RecipientMatcher of the pipeline
    pc,              \* where the caller of the function called is
    call,            \* the arguments and the collaborators' behaviour in the call
    result           \* the value the function called returned

vars == <<recipient_file, config, matcher, pc, call, result>>

NoMatcher == [state |-> "none", threshold |-> 0, recipient_db |-> <<>>]
FailedMatcher == [state |-> "raised", threshold |-> 0, recipient_db |-> <<>>]

NoCall ==
    [ocr_text |-> None, llm |-> NotCalled, rule |-> NotCalled,
     fallback_invoked |-> FALSE, extraction_raised |-> FALSE,
     matching_raised |-> FALSE]

NoResult ==
    [cleaned_text |-> <<>>, extracted_pairs |-> <<>>, matches |-> <<>>,
     status |-> "none", error_message |-> "None"]

Init ==
    /\ recipient_file \in Files
    /\ config \in [FUZZY_MATCH_THRESHOLD : Thresholds]
    /\ matcher = NoMatcher
    /\ pc = "idle"
    /\ call = NoCall
    /\ result = NoResult

\* RecipientMatcher.__init__ within OCRPipeline.__init__
Construct ==
    /\ matcher.state = "none"
    /\ LET loaded == _load_recipient_db(recipient_file)
       IN  matcher' = IF loaded.raised THEN FailedMatcher
                      ELSE [state |-> "ready",
                            threshold |-> config.FUZZY_MATCH_THRESHOLD,
                            recipient_db |-> loaded.value]
    /\ UNCHANGED <<recipient_file, config, pc, call, result>>

\* OCRPipeline.process_single_label on a pipeline that was constructed.  The
\* service and the rule-based extractor are consulted only where the code
\* reaches them.
ProcessSingleLabel(ocr_text, llm, rule) ==
    /\ matcher.state = "ready"
    /\ pc = "idle"
    /\ LET cleaned_text == clean_ocr_text(ocr_text)
           extraction == extract_name_address_pairs(llm, rule, TRUE)
           extracted == cleaned_text # <<>>
           matched == extracted /\ ~extraction.result.raised
           matching == MatchAll(matcher.recipient_db, matcher.threshold,
                                extraction.result.value, 1)
           outcome == process_single_label(matcher.recipient_db, matcher.threshold,
                                           ocr_text, llm, rule)
       IN  /\ (llm = NotCalled) = ~extracted
           /\ (rule = NotCalled) = ~(extracted /\ extraction.fallback_invoked)
           /\ call' = [ocr_text |-> ocr_text, llm |-> llm, rule |-> rule,
                       fallback_invoked |-> extracted /\ extraction.fallback_invoked,
                       extraction_raised |-> extracted /\ extraction.result.raised,
                       matching_raised |-> matched /\ matching.raised]
           /\ pc' = IF outcome.raised THEN "raised" ELSE "returned"
           /\ result' = IF outcome.raised THEN NoResult ELSE outcome.value
    /\ UNCHANGED <<recipient_file, config, matcher>>

\* The caller takes the result and turns to the next label
\* (the loop of process_batch).
NextLabel ==
    /\ pc = "returned"
    /\ pc' = "idle"
    /\ call' = NoCall
    /\ result' = NoResult
    /\ UNCHANGED <<recipient_file, config, matcher>>

Next ==
    \/ Construct
    \/ \E ocr_text \in Texts, llm \in LLMOutcomes \cup {NotCalled},
          rule \in RuleOutcomes \cup {NotCalled} :
          ProcessSingleLabel(ocr_text, llm, rule)
    \/ NextLabel

Spec == Init /\ [][Next]_vars

-----------------------------------------------------------------------------
(* OutputHandler.save_review_log *)

\* The statuses save_review_log flags for review.
ReviewStatuses ==
    {"low_confidence", "ambiguous", "no_matches", "error", "no_pairs_extracted"}

\* The flag without the status no_matches.
needs_review_NoMatchesSkipped(label) ==
    \/ label.status \in ReviewStatuses \ {"no_matches"}
    \/ \E i \in 1..Len(label.matches) : label.matches[i].combined_confidence < 8000
    \/ \E i \in 1..Len(label.matches) : label.matches[i].is_ambiguous

\* needs_review of save_review_log for one result.
needs_review(label) ==
    \/ label.status \in ReviewStatuses
    \/ \E i \in 1..Len(label.matches) : label.matches[i].combined_confidence < 8000
    \/ \E i \in 1..Len(label.matches) : label.matches[i].is_ambiguous

\* OutputHandler._get_review_reason: the reasons that are joined with ", ",
\* or the status when there is none.
_get_review_reason(status, match) ==
    LET reasons ==
            (IF status = "low_confidence" THEN <<"low_confidence">> ELSE <<>>)
            \o (IF match.is_ambiguous THEN <<"ambiguous_match">> ELSE <<>>)
            \o (IF match.combined_confidence < 8000
                THEN <<"confidence_below_80">> ELSE <<>>)
    IN  IF reasons = <<>> THEN <<status>> ELSE reasons

\* The rows save_review_log appends for one extracted pair of a result: one
\* for each match that carries the name and the address of the pair, or a
\* row without recipient when there is none.
PairRows(label, pair) ==
    LET FromPair(m) == /\ m.extracted_name = pair.input_name
                       /\ m.extracted_address = pair.input_address
        pair_matches == SelectSeq(label.matches, FromPair)
    IN  IF pair_matches # <<>>
        THEN [i \in 1..Len(pair_matches) |->
                 [status |-> label.status,
                  extracted_name |-> pair.input_name,
                  extracted_address |-> pair.input_address,
                  recipient_id |-> pair_matches[i].recipient_id,
                  matched_name |-> Strip(Str(pair_matches[i].first_name) \o <<32>>
                                         \o Str(pair_matches[i].last_name)),
                  combined_confidence |-> <<pair_matches[i].combined_confidence>>,
                  is_ambiguous |-> <<pair_matches[i].is_ambiguous>>,
                  review_reason |-> _get_review_reason(label.status, pair_matches[i])]]
        ELSE <<[status |-> label.status,
                extracted_name |-> pair.input_name,
                extracted_address |-> pair.input_address,
                recipient_id |-> <<>>,
                matched_name |-> <<>>,
                combined_confidence |-> <<>>,
                is_ambiguous |-> <<>>,
                review_reason |-> <<label.status>>]>>

\* The rows of the pairs of a result from the i-th on.
RECURSIVE RowsFrom(_, _)
RowsFrom(label, i) ==
    IF i > Len(label.extracted_pairs) THEN <<>>
    ELSE PairRows(label, label.extracted_pairs[i]) \o RowsFrom(label, i + 1)

\* The rows save_review_log appends for one result.
ReviewRows(label) ==
    IF ~needs_review(label) THEN <<>>
    ELSE IF label.extracted_pairs # <<>> THEN RowsFrom(label, 1)
    ELSE <<[status |-> label.status,
            extracted_name |-> <<>>,
            extracted_address |-> <<>>,
            recipient_id |-> <<>>,
            matched_name |-> <<>>,
            combined_confidence |-> <<>>,
            is_ambiguous |-> <<>>,
            review_reason |-> <<label.status>>]>>

\* OutputHandler.save_review_log: the rows of the review log written for the
\* results (the file holds only the header when there is no row).
RECURSIVE save_review_log(_)
save_review_log(results) ==
    IF results = <<>> THEN <<>>
    ELSE ReviewRows(Head(results)) \o save_review_log(Tail(results))

\* run_full_pipeline hands the result of the label to save_review_log.
SaveReviewLog ==
    /\ pc = "returned"
    /\ pc' = "logged"
    /\ result' = [results |-> <<result>>, review_log |-> save_review_log(<<result>>)]
    /\ UNCHANGED <<recipient_file, config, matcher, call>>

NextReview ==
    \/ Next
    \/ SaveReviewLog

SpecReview == Init /\ [][NextReview]_vars

-----------------------------------------------------------------------------
(* The text cleaner called on its own *)

InitCleaner ==
    /\ recipient_file = MissingFile
    /\ config = [FUZZY_MATCH_THRESHOLD |-> 70]
    /\ matcher = NoMatcher
    /\ pc = "idle"
    /\ call \in [ocr_text : RawTexts]
    /\ result = <<>>

\* clean_ocr_text(ocr_text)
CleanOcrText ==
    /\ pc = "idle"
    /\ pc' = "returned"
    /\ result' = clean_ocr_text(call.ocr_text)
    /\ UNCHANGED <<recipient_file, config, matcher, call>>

\* The caller hands the text it got back to clean_ocr_text again.
CleanAgain ==
    /\ pc = "returned"
    /\ pc' = "idle"
    /\ call' = [ocr_text |-> result]
    /\ result' = <<>>
    /\ UNCHANGED <<recipient_file, config, matcher>>

NextCleaner == CleanOcrText \/ CleanAgain

SpecCleaner == InitCleaner /\ [][NextCleaner]_vars

-----------------------------------------------------------------------------
(* The pipeline with the rule-based extractor computed from the text *)

InitExtract ==
    /\ recipient_file = LabelDirectory
    /\ config = [FUZZY_MATCH_THRESHOLD |-> 70]
    /\ matcher = NoMatcher
    /\ pc = "idle"
    /\ call = NoCall
    /\ result = NoResult

\* OCRPipeline.process_single_label on a label: the rule-based extractor, where
\* the code reaches it, is run on the cleaned text.
ProcessLabel(ocr_text) ==
    LET rule == RuleOn(clean_ocr_text(ocr_text))
    IN  \E llm \in LabelLLMOutcomes, r \in {NotCalled, rule} :
            ProcessSingleLabel(ocr_text, llm, r)

NextExtract ==
    \/ Construct
    \/ \E ocr_text \in Labels : ProcessLabel(ocr_text)
    \/ NextLabel

SpecExtract == InitExtract /\ [][NextExtract]_vars

-----------------------------------------------------------------------------
(* The rule-based extractor called on its own *)

InitRuleBased ==
    /\ recipient_file = MissingFile
    /\ config = [FUZZY_MATCH_THRESHOLD |-> 70]
    /\ matcher = NoMatcher
    /\ pc = "idle"
    /\ call \in AddressedTexts
    /\ result = [pairs |-> <<>>, address_start |-> -1]

\* extract_name_address_rule_based(ocr_text): the pairs returned, and the
\* offset the function took for the address.
ExtractRuleBased ==
    /\ pc = "idle"
    /\ pc' = "returned"
    /\ result' = Extracted(Locals(call.ocr_text))
    /\ UNCHANGED <<recipient_file, config, matcher, call>>

NextRuleBased == ExtractRuleBased

SpecRuleBased == InitRuleBased /\ [][NextRuleBased]_vars

-----------------------------------------------------------------------------
(* The rule-based extractor called on a street without city, state and zip *)

\* The street types of the vocabulary (street_types).
StreetTypeWords ==
    {Codes("street"), Codes("st"), Codes("avenue"), Codes("ave"),
     Codes("road"), Codes("rd"), Codes("drive"), Codes("dr"),
     Codes("lane"), Codes("ln"), Codes("boulevard"), Codes("blvd"),
     Codes("way"), Codes("court"), Codes("ct"), Codes("circle"),
     Codes("cir"), Codes("parkway"), Codes("pkwy"), Codes("highway"),
     Codes("hwy"), Codes("place"), Codes("pl"), Codes("freeway"),
     Codes("fwy")}

\* Texts that hold "<number> <street-name> <street-type>" and no city, state
\* or zip: "12 Oak" or "12 OAK" with a street type, capitalized or in upper
\* case, alone or after the line "John Smith".
StreetTexts ==
    {[ocr_text |-> (IF p.name = None THEN <<>> ELSE p.name \o <<10>>) \o p.street,
      parts |-> p] :
        p \in {[name |-> n, street |-> s] :
                  n \in {None, Codes("John Smith")},
                  s \in {Codes("12 Oak ") \o Capitalize(t) : t \in StreetTypeWords}
                        \cup {Codes("12 OAK ") \o Upper(t) : t \in StreetTypeWords}}}

InitStreets ==
    /\ recipient_file = MissingFile
    /\ config = [FUZZY_MATCH_THRESHOLD |-> 70]
    /\ matcher = NoMatcher
    /\ pc = "idle"
    /\ call \in StreetTexts
    /\ result = [pairs |-> <<>>, address_start |-> -1]

SpecStreets == InitStreets /\ [][NextRuleBased]_vars

-----------------------------------------------------------------------------
(* The rule-based extractor called on a street and a city written apart *)

\* The parts of such a text: a name (None for no name), a street, a line with
\* a city, a state and a zip, which of the two comes first, and what is
\* written between them (a newline or ", ").  "RALLA RAMIREZ" with the street
\* "201 MONTICELLA SARDENS PIACE" is one of the labels the extractor knows.
AttachNames == {None, Codes("John Smith"), Codes("RALLA RAMIREZ")}
AttachStreets ==
    {Codes("12 Oak St"), Codes("7 Elm Rd"), Codes("201 MONTICELLA SARDENS PIACE")}
AttachCities == {Codes("Springfield, IL 62704"), Codes("TAMPA FL 33613-4722")}
AttachOrders == {"street_first", "city_first"}

AttachedText(p) ==
    (IF p.name = None THEN <<>> ELSE p.name \o <<10>>)
    \o (IF p.order = "street_first" THEN p.street \o p.sep \o p.city
        ELSE p.city \o p.sep \o p.street)

AttachTexts ==
    {[ocr_text |-> AttachedText(p), parts |-> p] :
        p \in [name : AttachNames, street : AttachStreets, city : AttachCities,
               order : AttachOrders, sep : {<<10>>, <<44, 32>>}]}

InitAttach ==
    /\ recipient_file = MissingFile
    /\ config = [FUZZY_MATCH_THRESHOLD |-> 70]
    /\ matcher = NoMatcher
    /\ pc = "idle"
    /\ call \in AttachTexts
    /\ result = [pairs |-> <<>>, address_start |-> -1]

SpecAttach == InitAttach /\ [][NextRuleBased]_vars

-----------------------------------------------------------------------------
(* The rule-based extractor called on texts with several name lines *)

\* The lines written as names: two capitalized names, a line of two words of
\* the exclusion vocabulary, and a lower-case line with a one-letter word.
NameLines ==
    {Codes("John Smith"), Codes("Mary Major"), Codes("Mason Street"),
     Codes("al x")}

\* Texts with a street address ("12 Oak St", alone or with city, state and
\* zip), up to two different name lines before it, the first of them written
\* after "Ship To: " or not, and the line "Jane Doe" after it or not.
NamedTexts ==
    {[ocr_text |-> p.marker
                   \o Join(<<10>>, p.before \o <<p.address>>
                                   \o (IF p.after = None THEN <<>> ELSE <<p.after>>)),
      parts |-> p] :
        p \in {q \in [marker : {<<>>, Codes("Ship To: ")},
                      before : {<<>>} \cup {<<a>> : a \in NameLines}
                               \cup {<<a, b>> : a, b \in NameLines},
                      address : {Codes("12 Oak St"),
                                 Codes("12 Oak St, Springfield, IL 62704")},
                      after : {None, Codes("Jane Doe")}] :
                  Len(q.before) = 2 => q.before[1] # q.before[2]}}

InitNames ==
    /\ recipient_file = MissingFile
    /\ config = [FUZZY_MATCH_THRESHOLD |-> 70]
    /\ matcher = NoMatcher
    /\ pc = "idle"
    /\ call \in NamedTexts
    /\ result = [pairs |-> <<>>, address_start |-> -1]

SpecNames == InitNames /\ [][NextRuleBased]_vars

-----------------------------------------------------------------------------
(* The combined confidence computed on its own *)

InitScores ==
    /\ recipient_file = MissingFile
    /\ config = [FUZZY_MATCH_THRESHOLD |-> 70]
    /\ matcher = NoMatcher
    /\ pc = "idle"
    /\ call \in ScorePairs
    /\ result = [first |-> 0, second |-> 0]

\* round(name_score * 0.6 + address_score * 0.4, 2) for the two pairs of
\* scores (the combined confidence of match_pair).
CombineScores ==
    /\ pc = "idle"
    /\ pc' = "returned"
    /\ result' = [first |-> Round2(CombinedScore(call.name_score1,
                                                 call.address_score1)),
                  second |-> Round2(CombinedScore(call.name_score2,
                                                  call.address_score2))]
    /\ UNCHANGED <<recipient_file, config, matcher, call>>

NextScores == CombineScores

SpecScores == InitScores /\ [][NextScores]_vars

-----------------------------------------------------------------------------
(* Several workers processing labels against one pipeline *)

Workers == 1..MaxWorkers

\* The local variables of a process_single_label that has not started.
NoLocals ==
    [ocr_text |-> None, llm |-> NotCalled, rule |-> NotCalled,
     cleaned_text |-> <<>>, extracted_pairs |-> <<>>, all_matches |-> <<>>,
     next_pair |-> 0]

InitWorkers ==
    /\ recipient_file \in WorkerFiles
    /\ config = [FUZZY_MATCH_THRESHOLD |-> 70]
    /\ matcher = NoMatcher
    /\ pc = [w \in Workers |-> "idle"]
    /\ call = [w \in Workers |-> NoLocals]
    /\ result = [w \in Workers |-> NoResult]

\* A worker calls process_single_label: the text is cleaned, and a label that
\* is empty once cleaned is returned as an error.
StartLabel(w, label) ==
    /\ matcher.state = "ready"
    /\ pc[w] = "idle"
    /\ LET cleaned_text == clean_ocr_text(label.ocr_text)
       IN  IF cleaned_text = <<>>
           THEN /\ pc' = [pc EXCEPT ![w] = "returned"]
                /\ call' = [call EXCEPT ![w] =
                               [NoLocals EXCEPT !.ocr_text = label.ocr_text]]
                /\ result' = [result EXCEPT ![w] =
                                 [cleaned_text |-> <<>>,
                                  extracted_pairs |-> <<>>,
                                  matches |-> <<>>,
                                  status |-> "error",
                                  error_message |-> "Empty text after preprocessing"]]
           ELSE /\ pc' = [pc EXCEPT ![w] = "cleaned"]
                /\ call' = [call EXCEPT ![w] =
                               [NoLocals EXCEPT !.ocr_text = label.ocr_text,
                                                !.llm = label.llm,
                                                !.rule = label.rule,
                                                !.cleaned_text = cleaned_text]]
                /\ UNCHANGED result
    /\ UNCHANGED <<recipient_file, config, matcher>>

\* The worker's extraction: the pairs, or the error result when it raises.
ExtractPairs(w) ==
    /\ pc[w] = "cleaned"
    /\ LET extraction == extract_name_address_pairs(call[w].llm, call[w].rule, TRUE)
       IN  IF extraction.result.raised
           THEN /\ pc' = [pc EXCEPT ![w] = "returned"]
                /\ result' = [result EXCEPT ![w] =
                                 [cleaned_text |-> call[w].cleaned_text,
                                  extracted_pairs |-> <<>>,
                                  matches |-> <<>>,
                                  status |-> "error",
                                  error_message |-> "exception"]]
                /\ UNCHANGED call
           ELSE /\ pc' = [pc EXCEPT ![w] = "matching"]
                /\ call' = [call EXCEPT ![w].extracted_pairs = extraction.result.value,
                                        ![w].next_pair = 1]
                /\ UNCHANGED result
    /\ UNCHANGED <<recipient_file, config, matcher>>

\* One round of the worker's loop over the pairs: match_pair on the shared
\* matcher as it is at that moment, and the matches tagged and appended; an
\* exception of match_pair leaves process_single_label.
MatchNextPair(w) ==
    /\ pc[w] = "matching"
    /\ call[w].next_pair <= Len(call[w].extracted_pairs)
    /\ LET pair == call[w].extracted_pairs[call[w].next_pair]
           matches == match_pair(matcher.recipient_db, matcher.threshold,
                                 pair.input_name, pair.input_address)
       IN  /\ matcher' = MatcherAfterMatchPair(matcher, pair.input_name,
                                               pair.input_address)
           /\ IF matches.raised
              THEN /\ pc' = [pc EXCEPT ![w] = "raised"]
                   /\ UNCHANGED call
              ELSE /\ call' = [call EXCEPT
                                 ![w].all_matches = @ \o TagMatches(matches.value, pair),
                                 ![w].next_pair = @ + 1]
                   /\ UNCHANGED pc
    /\ UNCHANGED <<recipient_file, config, result>>

\* After the loop the worker determines the status and returns the result.
FinishLabel(w) ==
    /\ pc[w] = "matching"
    /\ call[w].next_pair > Len(call[w].extracted_pairs)
    /\ pc' = [pc EXCEPT ![w] = "returned"]
    /\ result' = [result EXCEPT ![w] =
                     [cleaned_text |-> call[w].cleaned_text,
                      extracted_pairs |-> call[w].extracted_pairs,
                      matches |-> call[w].all_matches,
                      status |-> DetermineStatus(call[w].extracted_pairs,
                                                 call[w].all_matches),
                      error_message |-> "None"]]
    /\ UNCHANGED <<recipient_file, config, matcher, call>>

\* The worker's caller takes the result, or the exception, and the worker
\* turns to its next label.
TakeResult(w) ==
    /\ pc[w] \in {"returned", "raised"}
    /\ pc' = [pc EXCEPT ![w] = "idle"]
    /\ call' = [call EXCEPT ![w] = NoLocals]
    /\ result' = [result EXCEPT ![w] = NoResult]
    /\ UNCHANGED <<recipient_file, config, matcher>>

NextWorkers ==
    \/ Construct
    \/ \E w \in Workers, label \in WorkerLabels : StartLabel(w, label)
    \/ \E w \in Workers : ExtractPairs(w)
    \/ \E w \in Workers : MatchNextPair(w)
    \/ \E w \in Workers : FinishLabel(w)
    \/ \E w \in Workers : TakeResult(w)

SpecWorkers == InitWorkers /\ [][NextWorkers]_vars

-----------------------------------------------------------------------------
(* Properties *)

Returned == pc = "returned"

Matches == {result.matches[i] : i \in 1..Len(result.matches)}

LLMFailed ==
    \/ call.llm.kind \in {"timeout", "error"}
    \/ call.llm.kind = "pairs" /\ call.llm.pairs = <<>>

\* C1: a label outcome that is not an error has exactly the status the fixed
\* precedence gives: no_pairs_extracted without pairs, else no_matches without
\* matches, else low_confidence if some match is below 80, else ambiguous if
\* some match is ambiguous, else success.
ThmC1_StatusPrecedence ==
    (Returned /\ result.status # "error") =>
        LET noPairs == result.extracted_pairs = <<>>
            noMatches == result.matches = <<>>
            low == \E m \in Matches : m.combined_confidence < 8000
            amb == \E m \in Matches : m.is_ambiguous
        IN  /\ noPairs => result.status = "no_pairs_extracted"
            /\ (~noPairs /\ noMatches) => result.status = "no_matches"
            /\ (~noPairs /\ ~noMatches /\ low) => result.status = "low_confidence"
            /\ (~noPairs /\ ~noMatches /\ ~low /\ amb) => result.status = "ambiguous"
            /\ (~noPairs /\ ~noMatches /\ ~low /\ ~amb) => result.status = "success"

\* A label with a match below 80 and an ambiguous match: low_confidence wins.
WitC1_LowBeatsAmbiguous ==
    /\ Returned
    /\ result.status = "low_confidence"
    /\ \E m \in Matches : m.is_ambiguous

CexC3_NoExceptionEscapes ==
    /\ pc # "raised"
    /\ call.matching_raised => (Returned /\ result.status = "error")

\* C4: the combined_confidence of every match is 0.6 * name_match_score
\* + 0.4 * address_match_score up to the rounding to 2 decimals (half a
\* hundredth), and lies in [0, 100], both scores lying in [0, 100].
ThmC4_CombinedConfidence ==
    \A m \in Matches :
        LET ns == m.name_match_score
            as == m.address_match_score
            exact == 100 * (6 * ns.n * as.d + 4 * as.n * ns.d)
            den == 10 * ns.d * as.d
            diff == m.combined_confidence * den - exact
        IN  /\ 0 <= ns.n /\ ns.n <= 100 * ns.d
            /\ 0 <= as.n /\ as.n <= 100 * as.d
            /\ 2 * diff <= den /\ -2 * diff <= den
            /\ 0 <= m.combined_confidence /\ m.combined_confidence <= 10000

\* A match whose scores differ and whose combined confidence was rounded.
WitC4_RoundedMatch ==
    \E m \in Matches :
        /\ m.name_match_score # m.address_match_score
        /\ m.combined_confidence * 10 * m.name_match_score.d * m.address_match_score.d
           # 100 * (6 * m.name_match_score.n * m.address_match_score.d
                    + 4 * m.address_match_score.n * m.name_match_score.d)

\* The recipients of the directory one of whose own name variations scores at
\* or above the threshold against the extracted name.
QualifyingRecipients(db, threshold, input_name) ==
    {db.rows[i]["recipient_id"] : i \in
        {k \in 1..Len(db.rows) :
            LET own == RowVariations(db, db.rows[k], <<>>)
            IN  \E v \in 1..Len(own) :
                    ScoreGE(ratio(Strip(Lower(input_name)), own[v].key), threshold)}}

\* C5: over a directory whose rows all have a recipient_id, every match of a
\* pair is ambiguous if and only if name variations of more than one distinct
\* recipient scored at or above the threshold against the extracted name.
CexC5_AmbiguousIffSeveralRecipients ==
    (Returned /\ \A i \in 1..Len(matcher.recipient_db.rows) :
                     matcher.recipient_db.rows[i]["recipient_id"] # NaN) =>
        \A m \in Matches :
            m.is_ambiguous <=>
                Cardinality(QualifyingRecipients(matcher.recipient_db,
                                                 matcher.threshold,
                                                 m.extracted_name)) > 1

\* C6: a match is emitted only if its name score and its combined confidence
\* are both at or above the threshold.
ThmC6_AboveThreshold ==
    \A m \in Matches :
        /\ ScoreGE(m.name_match_score, matcher.threshold)
        /\ m.combined_confidence >= 100 * matcher.threshold

\* A label with one pair where a name match cleared the name bar and was
\* dropped by the combined bar while another was emitted.
WitC6_DroppedByCombinedBar ==
    /\ Returned
    /\ Len(result.extracted_pairs) = 1
    /\ result.matches # <<>>
    /\ Len(_fuzzy_match_name(result.extracted_pairs[1].input_name,
                             _create_name_variations(matcher.recipient_db),
                             matcher.threshold)) > Len(result.matches)

\* The position in the directory of the recipient of a match.
DirectoryIndex(m) == Min(RowsWithId(matcher.recipient_db, m.recipient_id))

\* The matches of a label with one pair are in descending order of
\* combined_confidence.
SortedByConfidence ==
    \A i, j \in 1..Len(result.matches) :
        i < j => result.matches[i].combined_confidence
                 >= result.matches[j].combined_confidence

\* C7 as stated: the list match_pair returns is sorted by descending
\* combined_confidence and matches of equal combined_confidence are in the
\* order of their recipients in the directory.
CexC7_TiesInDirectoryOrder ==
    (Returned /\ Len(result.extracted_pairs) = 1) =>
        /\ SortedByConfidence
        /\ \A i, j \in 1..Len(result.matches) :
               (i < j /\ result.matches[i].combined_confidence
                         = result.matches[j].combined_confidence)
               => DirectoryIndex(result.matches[i]) <= DirectoryIndex(result.matches[j])

\* C7 amended: the list match_pair returns is sorted by descending
\* combined_confidence and matches of equal combined_confidence are in
\* descending order of name_match_score.
ThmC7_TiesInNameScoreOrder ==
    (Returned /\ Len(result.extracted_pairs) = 1) =>
        /\ SortedByConfidence
        /\ \A i, j \in 1..Len(result.matches) :
               (i < j /\ result.matches[i].combined_confidence
                         = result.matches[j].combined_confidence)
               => ~ScoreGT(result.matches[j].name_match_score,
                           result.matches[i].name_match_score)

\* Two matches of one pair tie on combined_confidence with different name
\* scores, and a match of lower confidence follows.
WitC7_Tie ==
    /\ Returned
    /\ Len(result.extracted_pairs) = 1
    /\ \E i, j \in 1..Len(result.matches) :
           /\ i < j
           /\ result.matches[i].combined_confidence
              = result.matches[j].combined_confidence
           /\ ScoreGT(result.matches[i].name_match_score,
                      result.matches[j].name_match_score)

\* C8: with the fallback enabled, the rule-based extractor is invoked exactly
\* when the service raised, timed out or yielded no pair; the pairs of a
\* service that yields some are returned as they are.
ThmC8_FallbackExactlyOnFailure ==
    (pc # "idle" /\ call.llm # NotCalled) =>
        /\ call.fallback_invoked <=> LLMFailed
        /\ (~LLMFailed /\ Returned) => result.extracted_pairs = call.llm.pairs

\* The service timed out and the rule-based extractor supplied the pair.
WitC8_FallbackAfterTimeout ==
    /\ Returned
    /\ call.llm.kind = "timeout"
    /\ call.fallback_invoked
    /\ call.rule.kind = "pairs"
    /\ result.extracted_pairs = call.rule.pairs
    /\ result.extracted_pairs # <<>>

ThmC10_MalformedDirectoryRaises ==
    /\ matcher.state = "ready" =>
           RequiredColumns \subseteq matcher.recipient_db.columns
    /\ ~(RequiredColumns \subseteq recipient_file.columns) =>
           (matcher.state # "ready" /\ pc = "idle" /\ result = NoResult)

\* Construction over a readable file that lacks a required column raised.
WitC10_ConstructionRaised ==
    /\ matcher.state = "raised"
    /\ recipient_file.readable
    /\ ~(RequiredColumns \subseteq recipient_file.columns)

\* C11: clean_ocr_text is idempotent: cleaning the text it returned gives the
\* same text back.
ThmC11_CleanIdempotent ==
    Returned => clean_ocr_text(result) = result

\* A text with a blank line between two lines was cleaned: the text returned
\* differs from the text passed and has lost the blank line.
WitC11_BlankLineRemoved ==
    /\ Returned
    /\ call.ocr_text = <<97, 10, 32, 10, 97>>
    /\ result = <<97, 10, 97>>

\* C12: the text clean_ocr_text returns has only printable ASCII, newline and
\* tab characters, no two consecutive spaces, no two consecutive newlines and
\* no whitespace at either end; None and the empty string give the empty
\* string.
ThmC12_CleanOutputShape ==
    Returned =>
        /\ \A i \in 1..Len(result) : result[i] \in (32..126) \cup {10, 9}
        /\ \A i \in 1..(Len(result) - 1) :
               /\ ~(result[i] = 32 /\ result[i + 1] = 32)
               /\ ~(result[i] = 10 /\ result[i + 1] = 10)
        /\ result # <<>> => (~IsSpace(result[1]) /\ ~IsSpace(result[Len(result)]))
        /\ call.ocr_text \in {None, <<>>} => result = <<>>

\* A text with a non-printable character, a run of spaces and whitespace at
\* both ends was cleaned to a non-empty text.
WitC12_DirtyTextCleaned ==
    /\ Returned
    /\ call.ocr_text = <<32, 97, 0, 32, 32>>
    /\ result = <<97>>

\* Where the rule-based extractor was run on the cleaned text of the label and
\* returned.
RuleBasedReturned ==
    Returned /\ call.fallback_invoked /\ call.rule.kind = "pairs"

\* A value that is neither empty nor a sentinel.
RealValue(v) ==
    v # <<>> /\ v # None /\ v # Codes("Unknown") /\ v # Codes("Address not found")

\* C13: extract_name_address_rule_based returns at most one pair; it returns
\* no pair exactly when it found neither a name nor an address, and the status
\* of the label is then no_pairs_extracted; a pair returned holds a real name
\* or a real address.
ThmC13_AtMostOnePair ==
    RuleBasedReturned =>
        LET pairs == call.rule.pairs
            found == Locals(result.cleaned_text)
        IN  /\ Len(pairs) <= 1
            /\ (pairs = <<>>) = (found.name = None /\ found.address = None)
            /\ pairs = <<>> => result.status = "no_pairs_extracted"
            /\ \A i \in 1..Len(pairs) :
                   RealValue(pairs[i].input_name) \/ RealValue(pairs[i].input_address)

\* The label "hello" went through the rule-based extractor, which found
\* nothing.
WitC13_NothingFound ==
    /\ RuleBasedReturned
    /\ call.ocr_text = Codes("hello")
    /\ call.rule.pairs = <<>>
    /\ result.status = "no_pairs_extracted"

\* C14: every pair an extractor emitted has a name, an address and a
\* tracking_number field, none of them omitted and neither the name nor the
\* address empty (a missing name is "Unknown", a missing address is
\* "Address not found").
CexC14_CompleteRecord ==
    Returned =>
        \A i \in 1..Len(result.extracted_pairs) :
            LET pair == result.extracted_pairs[i]
            IN  /\ {"input_name", "input_address", "tracking_number"}
                       \subseteq DOMAIN pair
                /\ pair.input_name # <<>>
                /\ pair.input_address # <<>>

\* The extracted pair is exactly the k-th row of the directory: its name is
\* the row's "First Last", its address the row's address, and no name of
\* another row scores at or above the threshold against the extracted name.
ExactlyRow(pair, k) ==
    LET db == matcher.recipient_db
        row == db.rows[k]
    IN  /\ row["first_name"] # NaN /\ row["last_name"] # NaN
        /\ row["recipient_id"] # NaN
        /\ pair.input_name = row["first_name"] \o <<32>> \o row["last_name"]
        /\ pair.input_address = row["address"]
        /\ \A j \in 1..Len(db.rows) :
               j # k =>
                   _fuzzy_match_name(pair.input_name,
                                     RowVariations(db, db.rows[j], <<>>),
                                     matcher.threshold) = <<>>

\* C15: a label whose one extracted pair is exactly a recipient of the
\* directory, with no other recipient's name at or above the threshold, is
\* matched to that recipient with combined_confidence 100 and is_ambiguous
\* false, and its status is success.
CexC15_ExactMatchIsCertain ==
    (Returned /\ Len(result.extracted_pairs) = 1) =>
        \A k \in 1..Len(matcher.recipient_db.rows) :
            ExactlyRow(result.extracted_pairs[1], k) =>
                /\ \E m \in Matches :
                       /\ m.recipient_id = matcher.recipient_db.rows[k]["recipient_id"]
                       /\ m.combined_confidence = 10000
                       /\ ~m.is_ambiguous
                /\ result.status = "success"

\* The name scores at or above the threshold against a name of the k-th row.
NameClears(input_name, k) ==
    LET db == matcher.recipient_db
    IN  _fuzzy_match_name(input_name, RowVariations(db, db.rows[k], <<>>),
                          matcher.threshold) # <<>>

\* The name scores at or above the threshold against two recipients of the
\* directory with different addresses.
TwoRecipientsClear(input_name) ==
    LET db == matcher.recipient_db
    IN  \E j, k \in 1..Len(db.rows) :
            /\ db.rows[j]["recipient_id"] # NaN
            /\ db.rows[k]["recipient_id"] # NaN
            /\ db.rows[j]["recipient_id"] # db.rows[k]["recipient_id"]
            /\ db.rows[j]["address"] # db.rows[k]["address"]
            /\ NameClears(input_name, j)
            /\ NameClears(input_name, k)

\* C16: when the name of the one extracted pair scores at or above the
\* threshold against two recipients with different addresses, every match
\* emitted is ambiguous, and the status is ambiguous if there is a match and
\* no_matches if there is none.
CexC16_TwoRecipientsAmbiguous ==
    (/\ Returned
     /\ Len(result.extracted_pairs) = 1
     /\ TwoRecipientsClear(result.extracted_pairs[1].input_name)) =>
        /\ \A m \in Matches : m.is_ambiguous
        /\ result.status = IF Matches # {} THEN "ambiguous" ELSE "no_matches"

\* The address the parts of the call spell in the order street, city, state,
\* zip, and the offset of its street number in the text.
WrittenAddress ==
    call.parts.street \o <<44, 32>> \o call.parts.city \o <<44, 32>>
    \o call.parts.state \o <<32>> \o call.parts.zip

WrittenOffset == IF call.parts.name = None THEN 0 ELSE Len(call.parts.name) + 1

\* The text of the call is a "<num> <street> <type>, <city>, ST 12345" address
\* with a two-letter upper-case state, alone or after a name line.
ValidAddressText ==
    /\ call.parts.layout = "full"
    /\ Upper(call.parts.state) = call.parts.state
    /\ call.parts.sep = 10

\* Two tokens, each an upper-case letter followed by lower-case letters.
CapitalizedTwoTokens(name) ==
    LET words == Split(name)
    IN  /\ name # None
        /\ Len(words) = 2
        /\ \A i \in 1..2 :
               /\ Len(words[i]) >= 2
               /\ words[i][1] \in Uppers
               /\ \A j \in 2..Len(words[i]) : words[i][j] \in Lowers

\* No token of the name is in the exclusion vocabularies of the strategy that
\* looks for the name before the address.
PassesValidation(name) ==
    ~AnyIn(Split(Lower(name)), non_name_words \cup PlaceWordsBefore)

\* The text holds a "ship to" or "recipient" marker.
HasShipToMarker(text) ==
    SearchI(Alt(<<Lit(Codes("ship")) \o Plus(Sp) \o Lit(Codes("to")),
                  Lit(Codes("recipient")),
                  Lit(Codes("rec")) \o Plus(Sp) \o Lit(Codes("ipient"))>>),
            text).ok

CexC18_ZipBeforeCityReordered ==
    (Returned /\ call.parts.layout = "zip_first") =>
        /\ Len(result.pairs) = 1
        /\ result.pairs[1].input_address =
               FormatAddress(call.parts.street, Capitalize(call.parts.city),
                             Upper(call.parts.state), call.parts.zip)

\* s1 <= s2 for two scores.
ScoreLE(s1, s2) == s1.n * s2.d <= s2.n * s1.d

\* C19: the combined confidence is non-decreasing in each score: a pair of
\* scores that is at most another pair in both scores has at most its
\* combined confidence.
ThmC19_ConfidenceMonotone ==
    (/\ Returned
     /\ ScoreLE(call.name_score1, call.name_score2)
     /\ ScoreLE(call.address_score1, call.address_score2)) =>
        result.first <= result.second

\* The name scores 50 and 100 with the address score 100 gave the combined
\* confidences 70 and 100.
WitC19_HigherNameScore ==
    /\ Returned
    /\ call.name_score1 = Frac(50, 1) /\ call.name_score2 = Frac(100, 1)
    /\ call.address_score1 = Frac(100, 1) /\ call.address_score2 = Frac(100, 1)
    /\ result = [first |-> 7000, second |-> 10000]

\* The matcher the constructor builds from the directory file.
LoadedMatcher ==
    [state |-> "ready",
     threshold |-> config.FUZZY_MATCH_THRESHOLD,
     recipient_db |-> _load_recipient_db(recipient_file).value]

\* The outcome of the worker's label processed alone against the matcher as
\* the constructor built it.
ProcessedAlone(w) ==
    process_single_label(LoadedMatcher.recipient_db, LoadedMatcher.threshold,
                         call[w].ocr_text, call[w].llm, call[w].rule)

\* C20: processing of labels shares no mutable state: the matcher stays the
\* directory snapshot and threshold the constructor loaded whatever calls of
\* match_pair and process_single_label the workers make, and in every
\* interleaving each label's result is the result of that label processed
\* alone (the exception that leaves the call included).
ThmC20_WorkersIndependent ==
    /\ matcher.state = "ready" => matcher = LoadedMatcher
    /\ \A w \in Workers :
          /\ pc[w] = "returned" =>
                /\ ~ProcessedAlone(w).raised
                /\ result[w] = ProcessedAlone(w).value
          /\ pc[w] = "raised" => ProcessedAlone(w).raised

\* Two workers are both between the two pairs of their labels, each with the
\* matches of its first pair.
WitC20_BothBetweenPairs ==
    \E v, w \in Workers :
        /\ v # w
        /\ pc[v] = "matching" /\ pc[w] = "matching"
        /\ call[v].next_pair = 2 /\ call[w].next_pair = 2
        /\ Len(call[v].extracted_pairs) = 2 /\ Len(call[w].extracted_pairs) = 2
        /\ call[v].all_matches # <<>> /\ call[w].all_matches # <<>>

\* The recipients the name-matching step retains for the extracted name.
RetainedRecipients(db, threshold, input_name) ==
    LET name_matches ==
            _fuzzy_match_name(input_name, _create_name_variations(db), threshold)
    IN  {name_matches[i].recipient_id : i \in 1..Len(name_matches)}

\* C21: the name-matching step retains every recipient of the directory one of
\* whose name variations scores at or above the threshold against the
\* extracted name, also when another recipient has the same name.
CexC21_NoRecipientDropped ==
    Returned =>
        \A i \in 1..Len(result.extracted_pairs) :
            LET input_name == result.extracted_pairs[i].input_name
            IN  input_name # <<>> =>
                    QualifyingRecipients(matcher.recipient_db, matcher.threshold,
                                         input_name)
                    \subseteq RetainedRecipients(matcher.recipient_db,
                                                 matcher.threshold, input_name)

\* C22: the list match_pair returns for one pair holds no recipient_id more
\* than once.
CexC22_OneMatchPerRecipient ==
    (Returned /\ Len(result.extracted_pairs) = 1) =>
        \A i, j \in 1..Len(result.matches) :
            i # j => result.matches[i].recipient_id # result.matches[j].recipient_id

\* C23: from a text that holds a "<number> <street-name> <street-type>" span
\* and no city, state or zip, the extractor returns a pair whose address is
\* that street span alone.
CexC23_StreetAloneReturned ==
    (Returned /\ call \in StreetTexts) =>
        /\ Len(result.pairs) = 1
        /\ result.pairs[1].input_address = call.parts.street

\* s.split(sep)
RECURSIVE SplitAt(_, _)
SplitAt(s, sep) ==
    LET p == Find(s, sep)
    IN  IF p < 0 THEN <<s>>
        ELSE <<SubSeq(s, 1, p)>> \o SplitAt(SubSeq(s, p + Len(sep) + 1, Len(s)), sep)

\* The part occurs in the text, letter case apart.
OccursIn(text, part) == Contains(Lower(text), Lower(part))

\* C24: every component of a returned address (the parts ", " separates)
\* occurs in the text, and an address that ends with the zip of the city line
\* had that line within the 200 characters after the street span.
CexC24_NothingFabricated ==
    (Returned /\ call \in AttachTexts) =>
        \A i \in 1..Len(result.pairs) :
            LET address == result.pairs[i].input_address
                components == SplitAt(address, <<44, 32>>)
                zip == Split(call.parts.city)[Len(Split(call.parts.city))]
                street_end == Find(call.ocr_text, call.parts.street)
                              + Len(call.parts.street)
                city_start == Find(call.ocr_text, call.parts.city)
            IN  RealValue(address) =>
                    /\ \A c \in 1..Len(components) :
                           OccursIn(call.ocr_text, components[c])
                    /\ (/\ Len(address) >= Len(zip)
                        /\ SubSeq(address, Len(address) - Len(zip) + 1, Len(address)) = zip)
                       => (city_start >= street_end /\ city_start < street_end + 200)

\* The exclusion vocabularies of the name validation and the street types.
ExcludedTokens == non_name_words \cup PlaceWordsBefore \cup StreetTypeWords

\* C25: no token of a name the extractor returns is in the exclusion
\* vocabularies or is a street type, whichever strategy found the name,
\* the "ship to" strategy included.
CexC25_NoExcludedToken ==
    (Returned /\ call \in NamedTexts) =>
        \A i \in 1..Len(result.pairs) :
            RealValue(result.pairs[i].input_name) =>
                ~AnyIn(Split(result.pairs[i].input_name), ExcludedTokens)

\* C26: a name the extractor returns, other than "Unknown" and the
\* single-token "Anissa", has at least two tokens, each of two characters or
\* more.
CexC26_TwoTokensOfTwoChars ==
    (Returned /\ call \in NamedTexts) =>
        \A i \in 1..Len(result.pairs) :
            LET name == result.pairs[i].input_name
                words == Split(name)
            IN  (RealValue(name) /\ name # Codes("Anissa")) =>
                    /\ Len(words) >= 2
                    /\ \A w \in 1..Len(words) : Len(words[w]) >= 2

\* The name lines of the text that are valid candidates, each with its offset
\* in the text.
ValidCandidates ==
    LET lines == call.parts.before
                 \o (IF call.parts.after = None THEN <<>> ELSE <<call.parts.after>>)
    IN  {[name |-> lines[i], offset |-> Find(call.ocr_text, lines[i])] :
            i \in {j \in 1..Len(lines) :
                      /\ CapitalizedTwoTokens(lines[j])
                      /\ ~AnyIn(Split(lines[j]), ExcludedTokens)}}

\* |candidate offset - address offset|
Distance(candidate) ==
    IF candidate.offset >= result.address_start
    THEN candidate.offset - result.address_start
    ELSE result.address_start - candidate.offset

\* C27: with several valid candidates in the text and the address offset
\* known, the name returned is the candidate nearest to the address offset,
\* the earliest of the nearest ones.
CexC27_NearestCandidate ==
    (/\ Returned
     /\ call \in NamedTexts
     /\ Cardinality(ValidCandidates) >= 2
     /\ result.address_start >= 0) =>
        /\ Len(result.pairs) = 1
        /\ \E c \in ValidCandidates :
               /\ result.pairs[1].input_name = c.name
               /\ \A other \in ValidCandidates :
                      \/ Distance(c) < Distance(other)
                      \/ Distance(c) = Distance(other) /\ c.offset <= other.offset

\* The review log of the label was written.
Logged == pc = "logged"

ThmC29_ErrorMessageIffError ==
    Returned =>
        /\ result.status = "error" =>
               /\ result.extracted_pairs = <<>>
               /\ result.matches = <<>>
               /\ result.error_message # "None"
        /\ result.status # "error" => result.error_message = "None"

\* The extraction of a label with a non-empty cleaned text raised and the
\* result carries the message of the exception.
WitC29_ExtractionErrorHasMessage ==
    /\ Returned
    /\ call.extraction_raised
    /\ result.cleaned_text # <<>>
    /\ result.status = "error"
    /\ result.error_message = "exception"

\* C30: no result of a matcher with a threshold of 80 or more has status
\* low_confidence; a result with status low_confidence has a match with a
\* combined confidence of at least the threshold and below 80.
ThmC30_LowConfidenceBelowEighty ==
    (Returned /\ result.status = "low_confidence") =>
        /\ matcher.threshold < 80
        /\ \E m \in Matches :
               /\ m.combined_confidence >= 100 * matcher.threshold
               /\ m.combined_confidence < 8000
        /\ \A m \in Matches : m.combined_confidence >= 100 * matcher.threshold

\* A matcher with threshold 80 matched a pair whose name has a qualifying
\* recipient: every match returned has 80 or more and the label is not
\* low_confidence.
WitC30_ThresholdEightyHasMatches ==
    /\ Returned
    /\ matcher.threshold = 80
    /\ result.matches # <<>>
    /\ result.status \in {"success", "ambiguous"}
    /\ \E m \in Matches : m.combined_confidence < 10000

====
